---- MODULE Spec2Model ----
(***************************************************************************)
(* Model of the dbstorage engine: the B+-tree (btree2/mod.rs over          *)
(* btree/node.rs), the extendible hash index (hash_table/extendible.rs)    *)
(* and the heap list (table/list.rs).  Each structure has its own          *)
(* specification (SpecBT, SpecHT, SpecList) over its own variables.        *)
(*                                                                         *)
(* Pages are kept in a page store (page id -> page image).  The page       *)
(* cache is used here only as that store: new_page hands out the next      *)
(* page id with a zeroed image, fetch_page returns the stored image.       *)
(* Frame pins and frame locks are not part of these three specifications.  *)
(***************************************************************************)
EXTENDS Integers, Sequences, FiniteSets, TLC

\* ------------------------------------------------------------------ bounds
MaxKey == 4
MaxVal == 2
MaxInserts == 5
MaxHi == 6

\* smallest node capacity the tree is instantiated with
MaxLo == 4

\* keys of the runs that take any node capacity from 0 up
MaxWideKey == 5

\* cache calls of one insert after which the cache may run out of frames, and
\* the inserts of the runs with frame locks and with such a cache
MaxCalls == 8
MaxLockInserts == 4
MaxOomInserts == 4

BTKeys == 1..MaxKey
BTVals == 1..MaxVal

\* ------------------------------------------------------------------ state
\* B+-tree: page store, page allocator, BTree.root, BTree.max, outcome of the
\* last insert; bt_map (key -> last inserted value) and bt_n are history
VARIABLES bt_pages, bt_next, bt_root, bt_max, bt_st, bt_map, bt_n

bt_vars == <<bt_pages, bt_next, bt_root, bt_max, bt_st, bt_map, bt_n>>

\* hash index: hash of each key, directory page, bucket pages, page allocator,
\* pages handed to remove_page; ht_live (pairs inserted and not removed), the
\* operation counters and the last operation are history; ht_dirid is
\* dir_page_id and ht_rmcall the remove_page call of the last operation
VARIABLES ht_hash, ht_dir, ht_pages, ht_next, ht_removed, ht_live, ht_cnt, ht_rm, ht_op,
          ht_dirid, ht_rmcall

ht_vars == <<ht_hash, ht_dir, ht_pages, ht_next, ht_removed, ht_live, ht_cnt, ht_rm, ht_op,
             ht_dirid, ht_rmcall>>

\* heap list: page store, page allocator, List.first_page_id / last_page_id,
\* "ok" or "panic", the iterator (cursor r_id, end, whether it is live or has
\* returned None) and what it yielded; ls_log (rid and bytes of each insert
\* that returned, in order), ls_n (insert calls) and ls_op (the last call and
\* the length of the tuple it was given) are history
VARIABLES ls_pages, ls_next, ls_first, ls_last, ls_st, ls_it, ls_out, ls_log, ls_n, ls_op

ls_vars == <<ls_pages, ls_next, ls_first, ls_last, ls_st, ls_it, ls_out, ls_log, ls_n, ls_op>>

\* node codec: the node value given to PageBuf::from and the node Node::from
\* reads back (<<>> before the conversion)
VARIABLES nd_in, nd_out

nd_vars == <<nd_in, nd_out>>

\* tuple comparator: the schema (column types in order), the column values of
\* the two tuples, their bytes as built by TupleBuilder, and the Ordering
\* returned by Comparand::cmp ("none" before the call)
VARIABLES cm_schema, cm_a, cm_b, cm_abytes, cm_bbytes, cm_res

cm_vars == <<cm_schema, cm_a, cm_b, cm_abytes, cm_bbytes, cm_res>>

\* page cache: the frames of the pool, the table from page id to frame (0 for
\* a page that is not resident), the free list, the replacer's access
\* history, evictable flags and clock, the pages on disk, the next page id,
\* each task's live guards and the frame it is loading (0 for none); then the
\* history the claims speak of: the last byte written to each page through a
\* guard, the disk loads of each page since it became resident, the pages
\* removed, the pages written back by an eviction, and the outcome of the
\* new_page or fetch_page call just made
VARIABLES pc_frames, pc_table, pc_free, pc_hist, pc_evictable, pc_clock,
          pc_disk, pc_next, pc_guards, pc_loader,
          pc_written, pc_loads, pc_removed, pc_wb, pc_op

pc_vars == <<pc_frames, pc_table, pc_free, pc_hist, pc_evictable, pc_clock,
             pc_disk, pc_next, pc_guards, pc_loader,
             pc_written, pc_loads, pc_removed, pc_wb, pc_op>>

\* disk: the bytes of the file, and the history the claims speak of: the
\* page last written under each page id (<<>> for none) and the last read
VARIABLES dk_file, dk_last, dk_out

dk_vars == <<dk_file, dk_last, dk_out>>

\* bitmap: BitMap.inner and BitMap.occupied; bm_bits (the indices whose last
\* set was true) and bm_op (the value of the last set and whether the bit was
\* set before it) are history
VARIABLES bm_inner, bm_occupied, bm_bits, bm_op

bm_vars == <<bm_inner, bm_occupied, bm_bits, bm_op>>

\* concurrent hash calls: each task's position in its call with the values it
\* holds, the frame locks held, the table left by the calls that returned
\* (history) and the number of calls made
VARIABLES hc_task, hc_held, hc_commit, hc_calls

hc_vars == <<hc_task, hc_held, hc_commit, hc_calls>>

vars == <<bt_vars, ht_vars, ls_vars, nd_vars, cm_vars, pc_vars, dk_vars, bm_vars, hc_vars>>

\* what the operations of one structure leave alone
bt_others == <<ht_vars, ls_vars, nd_vars, cm_vars, pc_vars, dk_vars, bm_vars, hc_vars>>
ht_others == <<bt_vars, ls_vars, nd_vars, cm_vars, pc_vars, dk_vars, bm_vars, hc_vars>>
ls_others == <<bt_vars, ht_vars, nd_vars, cm_vars, pc_vars, dk_vars, bm_vars, hc_vars>>
nd_others == <<bt_vars, ht_vars, ls_vars, cm_vars, pc_vars, dk_vars, bm_vars, hc_vars>>
cm_others == <<bt_vars, ht_vars, ls_vars, nd_vars, pc_vars, dk_vars, bm_vars, hc_vars>>
pc_others == <<bt_vars, ht_vars, ls_vars, nd_vars, cm_vars, dk_vars, bm_vars, hc_vars>>
dk_others == <<bt_vars, ht_vars, ls_vars, nd_vars, cm_vars, pc_vars, bm_vars, hc_vars>>
bm_others == <<bt_vars, ht_vars, ls_vars, nd_vars, cm_vars, pc_vars, dk_vars, hc_vars>>
htc_others == <<bt_vars, ls_vars, nd_vars, cm_vars, pc_vars, dk_vars, bm_vars>>

\* ------------------------------------------------------------------ B+-tree

\* NodeType as its byte: 1 = Internal, 2 = Leaf
Internal == 1
Leaf == 2

\* Either::Value / Either::Pointer as the tag byte
TagValue == 0
TagPointer == 1

\* a page as new_page returns it: every byte zero
ZeroPage == [t |-> 0, is_root |-> 0, len |-> 0, max |-> 0, next |-> 0, id |-> 0, slots |-> <<>>]

Slot(k, tag, x) == [k |-> k, tag |-> tag, x |-> x]

\* BTreeSet<Slot>: slots are ordered and identified by key alone
SetInsert(values, s) == IF \E e \in values : e.k = s.k THEN values ELSE values \cup {s}

SetReplace(values, s) == {e \in values : e.k # s.k} \cup {s}

\* values.iter().nth(i)
Nth(values, i) == CHOOSE e \in values : Cardinality({f \in values : f.k < e.k}) = i

SetFirst(values) == CHOOSE e \in values : \A f \in values : e.k <= f.k

SetLast(values) == CHOOSE e \in values : \A f \in values : f.k <= e.k

\* Increment::next on integer keys
Increment(k) == k + 1

NodeNew(id, max, t, is_root) ==
  [t |-> t, is_root |-> is_root, len |-> 0, max |-> max, next |-> -1, id |-> id, values |-> {}]

RECURSIVE SortedSlots(_)
SortedSlots(values) ==
  IF values = {} THEN <<>>
  ELSE LET f == SetFirst(values) IN <<f>> \o SortedSlots(values \ {f})

\* PageBuf::from(&Node): the header len is values.len(), slots in key order
NodeToPage(node) ==
  [t |-> node.t, is_root |-> IF node.is_root THEN 1 ELSE 0,
   len |-> Cardinality(node.values), max |-> node.max, next |-> node.next,
   id |-> node.id, slots |-> SortedSlots(node.values)]

RECURSIVE SlotsToSet(_, _, _)
SlotsToSet(slots, rem, acc) ==
  IF rem = 0 \/ slots = <<>> THEN acc
  ELSE SlotsToSet(Tail(slots), rem - 1, SetInsert(acc, Head(slots)))

\* Node::from(&PageBuf): len slots are read back into the set
PageToNode(page) ==
  [t |-> page.t, is_root |-> page.is_root > 0, len |-> page.len, max |-> page.max,
   next |-> page.next, id |-> page.id, values |-> SlotsToSet(page.slots, page.len, {})]

almost_full_never(node) == FALSE

almost_full(node) == Cardinality(node.values) >= node.max \div 2

split_keeps_root(node, id) ==
  LET mid == Nth(node.values, Cardinality(node.values) \div 2)
      rest == {e \in node.values : e.k >= mid.k}
      keep == node.values \ rest
      new == [t |-> node.t, is_root |-> FALSE, len |-> Cardinality(rest), max |-> node.max,
              next |-> IF node.t = Leaf THEN node.next ELSE -1, id |-> id, values |-> rest]
      old == [node EXCEPT !.values = keep, !.len = Cardinality(keep),
                          !.next = IF node.t = Leaf THEN id ELSE node.next]
  IN [old |-> old, new |-> new]

split_above_mid(node, id) ==
  LET mid == Nth(node.values, Cardinality(node.values) \div 2)
      rest == {e \in node.values : e.k > mid.k}
      keep == node.values \ rest
      new == [t |-> node.t, is_root |-> FALSE, len |-> Cardinality(rest), max |-> node.max,
              next |-> IF node.t = Leaf THEN node.next ELSE -1, id |-> id, values |-> rest]
      old == [node EXCEPT !.values = keep, !.len = Cardinality(keep), !.is_root = FALSE,
                          !.next = IF node.t = Leaf THEN id ELSE node.next]
  IN [old |-> old, new |-> new]

split_truncates(node, id) ==
  LET mid == Nth(node.values, Cardinality(node.values) \div 2)
      rest == {e \in node.values : e.k >= mid.k}
      keep == node.values \ rest
      new == [t |-> node.t, is_root |-> FALSE, len |-> Cardinality(rest), max |-> node.max,
              next |-> -1, id |-> id, values |-> rest]
      old == [node EXCEPT !.values = keep, !.len = Cardinality(keep), !.is_root = FALSE,
                          !.next = IF node.t = Leaf THEN id ELSE node.next]
  IN [old |-> old, new |-> new]

\* Node::split: the node keeps the slots below the middle one, the rest move
split(node, id) ==
  LET mid == Nth(node.values, Cardinality(node.values) \div 2)
      rest == {e \in node.values : e.k >= mid.k}
      keep == node.values \ rest
      new == [t |-> node.t, is_root |-> FALSE, len |-> Cardinality(rest), max |-> node.max,
              next |-> IF node.t = Leaf THEN node.next ELSE -1, id |-> id, values |-> rest]
      old == [node EXCEPT !.values = keep, !.len = Cardinality(keep), !.is_root = FALSE,
                          !.next = IF node.t = Leaf THEN id ELSE node.next]
  IN [old |-> old, new |-> new]

get_separator_last(node) ==
  LET ls == SetLast(node.values)
  IN Slot(ls.k, TagPointer, node.id)

get_separator(node) ==
  LET ls == SetLast(node.values)
  IN Slot(IF node.t = Leaf THEN Increment(ls.k) ELSE ls.k, TagPointer, node.id)

\* Node::get_separators: Option is <<>> for None, else the pair
get_separators(node, other) ==
  IF other = <<>> THEN <<>> ELSE <<get_separator(node), get_separator(other)>>

find_child_from(node, key) ==
  IF node.t = Leaf THEN -1
  ELSE LET gt == {s \in node.values : key <= s.k}
       IN IF gt = {} THEN node.next ELSE SetFirst(gt).x

\* Option<PageId>: None is -1 (a next of -1 is never returned as Some)
find_child(node, key) ==
  IF node.t = Leaf THEN -1
  ELSE LET gt == {s \in node.values : key < s.k}
       IN IF gt = {} THEN node.next ELSE SetFirst(gt).x

first_ptr(node) == IF node.values = {} THEN -1 ELSE SetFirst(node.values).x

\* page store: new_page
NewPage(pages, nx) == [p \in (DOMAIN pages) \cup {nx} |-> IF p = nx THEN ZeroPage ELSE pages[p]]

\* page store: w.data = PageBuf::from(node) on the page with the given id
WritePage(pages, id, node) == [pages EXCEPT ![id] = NodeToPage(node)]

Res(pages, nx, sep, st) == [pages |-> pages, nx |-> nx, sep |-> sep, st |-> st]

\* BTree::find_child: a key right of every separator of an internal node gets a
\* fresh empty leaf page, whose id is returned
BTree_find_child(pages, nx, node, key) ==
  LET ptr == find_child(node, key)
  IN IF ptr # -1 THEN [pages |-> pages, nx |-> nx, ptr |-> ptr, st |-> "ok"]
     ELSE IF node.t = Internal THEN
       LET pg1 == NewPage(pages, nx)
           fp == first_ptr(node)
       IN IF fp # -1 /\ pg1[fp].t # Leaf
          THEN [pages |-> pg1, nx |-> nx + 1, ptr |-> -1, st |-> "panic"]
          ELSE [pages |-> WritePage(pg1, nx, NodeNew(nx, node.max, Leaf, FALSE)),
                nx |-> nx + 1, ptr |-> nx, st |-> "ok"]
     ELSE [pages |-> pages, nx |-> nx, ptr |-> -1, st |-> "ok"]

\* Node::get_separators with Some(other); expect() on an empty half panics
Separators(pages, nx, node, other) ==
  IF node.values = {} \/ other.values = {} THEN Res(pages, nx, <<>>, "panic")
  ELSE Res(pages, nx, <<get_separator(node), get_separator(other)>>, "ok")

InsertSeps(values, sep) ==
  IF sep = <<>> THEN values ELSE SetInsert(SetInsert(values, sep[1]), sep[2])

\* the end of _insert: with a split half `other` (<<>> if none; curIsNew tells
\* which half `cur` is) the two separators are returned
Finish(pg, nx, cur, other, curIsNew) ==
  IF other = <<>> THEN Res(pg, nx, <<>>, "ok")
  ELSE IF curIsNew THEN Separators(pg, nx, other[1], cur)
  ELSE Separators(pg, nx, cur, other[1])

\* _insert at a leaf: the slot replaces one of the same key, the node is written
AtLeaf(pages, nx, cur, other, curIsNew, key, value) ==
  LET cur2 == [cur EXCEPT !.values = SetReplace(cur.values, Slot(key, TagValue, value))]
  IN Finish(WritePage(pages, cur.id, cur2), nx, cur2, other, curIsNew)

\* _insert after the recursive call: the separators it returned are inserted
\* into the node, the node is written
AfterChild(r, cur, other, curIsNew) ==
  IF r.st # "ok" THEN r
  ELSE LET cur2 == [cur EXCEPT !.values = InsertSeps(cur.values, r.sep)]
       IN Finish(WritePage(r.pages, cur.id, cur2), r.nx, cur2, other, curIsNew)

\* the side of a split the insertion continues into
GoesToNew(new, key) == key >= SetLast(new.values).k

\* the head of _insert: an almost full node is split into a fresh page, the
\* half the key does not go to is written, the other half is `cur`
SplitStep(pages, nx, node, key) ==
  IF ~almost_full(node)
  THEN [pages |-> pages, nx |-> nx, cur |-> node, other |-> <<>>, curIsNew |-> FALSE, st |-> "ok"]
  ELSE IF node.values = {}
  THEN [pages |-> NewPage(pages, nx), nx |-> nx + 1, cur |-> node, other |-> <<>>,
        curIsNew |-> FALSE, st |-> "panic"]
  ELSE LET pg1 == NewPage(pages, nx)
           sp == split(node, nx)
       IN IF GoesToNew(sp.new, key)
          THEN [pages |-> WritePage(pg1, sp.old.id, sp.old), nx |-> nx + 1, cur |-> sp.new,
                other |-> <<sp.old>>, curIsNew |-> TRUE, st |-> "ok"]
          ELSE [pages |-> WritePage(pg1, sp.new.id, sp.new), nx |-> nx + 1, cur |-> sp.old,
                other |-> <<sp.new>>, curIsNew |-> FALSE, st |-> "ok"]

RECURSIVE Descend(_, _, _, _)

\* the body of _insert after the split: find the child of s.cur, insert at a
\* leaf or recurse into the child, write s.cur back
Descend(s, fc, key, value) ==
  IF s.st # "ok" THEN Res(s.pages, s.nx, <<>>, "panic")
  ELSE IF fc.st # "ok" THEN Res(fc.pages, fc.nx, <<>>, "panic")
  ELSE IF fc.ptr = -1 THEN AtLeaf(fc.pages, fc.nx, s.cur, s.other, s.curIsNew, key, value)
  ELSE IF fc.pages[fc.ptr].t \notin {Internal, Leaf} THEN Res(fc.pages, fc.nx, <<>>, "panic")
  ELSE LET s2 == SplitStep(fc.pages, fc.nx, PageToNode(fc.pages[fc.ptr]), key)
       IN AfterChild(Descend(s2, BTree_find_child(s2.pages, s2.nx, s2.cur, key), key, value),
                     s.cur, s.other, s.curIsNew)

_insert(pages, nx, node, key, value) ==
  LET s == SplitStep(pages, nx, node, key)
  IN Descend(s, BTree_find_child(s.pages, s.nx, s.cur, key), key, value)

\* BTree::insert
BTree_insert(pages, nx, root, max, key, value) ==
  LET fresh == root = -1
      pg0 == IF fresh THEN NewPage(pages, nx) ELSE pages
      nx0 == IF fresh THEN nx + 1 ELSE nx
      rootNode == IF fresh THEN NodeNew(nx, max, Leaf, TRUE) ELSE PageToNode(pages[root])
      r == _insert(pg0, nx0, rootNode, key, value)
  IN IF r.st # "ok" THEN [pages |-> r.pages, nx |-> r.nx, root |-> rootNode.id, st |-> "panic"]
     ELSE IF r.sep = <<>> THEN [pages |-> r.pages, nx |-> r.nx, root |-> rootNode.id, st |-> "ok"]
     ELSE LET pg1 == NewPage(r.pages, r.nx)
              nr == NodeNew(r.nx, max, Internal, TRUE)
              nr2 == [nr EXCEPT !.values = InsertSeps({}, r.sep)]
          IN [pages |-> WritePage(pg1, r.nx, nr2), nx |-> r.nx + 1, root |-> r.nx, st |-> "ok"]

\* ---- insert with the frame write locks the call holds
\* the call awaits a frame lock it holds itself and never returns
Blocked(pages, nx) == Res(pages, nx, <<>>, "blocked")

\* the page find_child read-locks: the first child of an internal node that has
\* no child for the key
ReadLocked(node, key) ==
  IF find_child(node, key) = -1 /\ node.t = Internal /\ first_ptr(node) # -1
  THEN {first_ptr(node)} ELSE {}

RECURSIVE _insert_locked(_, _, _, _, _, _)
\* _insert, called while the caller and its callers hold the write locks of the
\* pages `held`: it write-locks the node's own page (w, or nw for the new half),
\* read-locks the first child inside find_child, write-locks the child (cw) and
\* recurses with w or nw and cw still held; the split step s and the child
\* lookup fc are each computed once
_insert_locked(pages, nx, node, key, value, held) ==
  LET child(s, fc, mine) ==
        IF ReadLocked(s.cur, key) \intersect mine # {}
          THEN Blocked(NewPage(s.pages, s.nx), s.nx + 1)
        ELSE IF fc.st # "ok" THEN Res(fc.pages, fc.nx, <<>>, "panic")
        ELSE IF fc.ptr = -1
          THEN AtLeaf(fc.pages, fc.nx, s.cur, s.other, s.curIsNew, key, value)
        ELSE IF fc.ptr \in mine THEN Blocked(fc.pages, fc.nx)
        ELSE IF fc.pages[fc.ptr].t \notin {Internal, Leaf}
          THEN Res(fc.pages, fc.nx, <<>>, "panic")
        ELSE AfterChild(_insert_locked(fc.pages, fc.nx, PageToNode(fc.pages[fc.ptr]),
                                       key, value, mine \union {fc.ptr}),
                        s.cur, s.other, s.curIsNew)
      own(s) ==
        IF s.st # "ok" THEN Res(s.pages, s.nx, <<>>, "panic")
        ELSE IF node.id \in held
          THEN Blocked(IF s.curIsNew THEN NewPage(pages, nx) ELSE s.pages, s.nx)
        ELSE CHOOSE r \in {child(s, fc, held \union {s.cur.id}) :
                             fc \in {BTree_find_child(s.pages, s.nx, s.cur, key)}} : TRUE
  IN CHOOSE r \in {own(s) : s \in {SplitStep(pages, nx, node, key)}} : TRUE

\* BTree::insert with the frame locks: the root's read lock is released before
\* _insert is called
BTree_insert_locked(pages, nx, root, max, key, value) ==
  LET fresh == root = -1
      pg0 == IF fresh THEN NewPage(pages, nx) ELSE pages
      nx0 == IF fresh THEN nx + 1 ELSE nx
      rootNode == IF fresh THEN NodeNew(nx, max, Leaf, TRUE) ELSE PageToNode(pages[root])
      r == _insert_locked(pg0, nx0, rootNode, key, value, {})
  IN IF r.st # "ok" THEN [pages |-> r.pages, nx |-> r.nx, root |-> rootNode.id, st |-> r.st]
     ELSE IF r.sep = <<>> THEN [pages |-> r.pages, nx |-> r.nx, root |-> rootNode.id, st |-> "ok"]
     ELSE LET pg1 == NewPage(r.pages, r.nx)
              nr == NodeNew(r.nx, max, Internal, TRUE)
              nr2 == [nr EXCEPT !.values = InsertSeps({}, r.sep)]
          IN [pages |-> WritePage(pg1, r.nx, nr2), nx |-> r.nx + 1, root |-> r.nx, st |-> "ok"]

\* ---- insert with a cache that runs out of frames
\* `n` is the number of new_page and fetch_page calls that still succeed; the
\* call after them returns None and the insert ends with OutOfMemory
ResN(pages, nx, sep, st, n) == [pages |-> pages, nx |-> nx, sep |-> sep, st |-> st, n |-> n]

WithN(r, n) == ResN(r.pages, r.nx, r.sep, r.st, n)

\* BTree::find_child: new_page for the fresh leaf, fetch_page of the first child
BTree_find_child_oom(pages, nx, node, key, n) ==
  LET ptr == find_child(node, key)
  IN IF ptr # -1 THEN [pages |-> pages, nx |-> nx, ptr |-> ptr, st |-> "ok", n |-> n]
     ELSE IF node.t = Internal THEN
       LET pg1 == NewPage(pages, nx)
           fp == first_ptr(node)
       IN IF n = 0 THEN [pages |-> pages, nx |-> nx, ptr |-> -1, st |-> "oom", n |-> 0]
          ELSE IF fp # -1 /\ n = 1
            THEN [pages |-> pg1, nx |-> nx + 1, ptr |-> -1, st |-> "oom", n |-> 0]
          ELSE IF fp # -1 /\ pg1[fp].t # Leaf
            THEN [pages |-> pg1, nx |-> nx + 1, ptr |-> -1, st |-> "panic", n |-> 0]
          ELSE [pages |-> WritePage(pg1, nx, NodeNew(nx, node.max, Leaf, FALSE)),
                nx |-> nx + 1, ptr |-> nx, st |-> "ok",
                n |-> IF fp # -1 THEN n - 2 ELSE n - 1]
     ELSE [pages |-> pages, nx |-> nx, ptr |-> -1, st |-> "ok", n |-> n]

\* the head of _insert: new_page for the split, then fetch_page of the node's
\* own page; the new half of a split the key does not go to is written before
\* that fetch, the old half of the other kind of split after it
SplitStep_oom(pages, nx, node, key, n) ==
  LET out(pg, x, st) == [pages |-> pg, nx |-> x, cur |-> node, other |-> <<>>,
                         curIsNew |-> FALSE, st |-> st, n |-> 0]
  IN IF n = 0 THEN out(pages, nx, "oom")
     ELSE IF ~almost_full(node)
       THEN [pages |-> pages, nx |-> nx, cur |-> node, other |-> <<>>, curIsNew |-> FALSE,
             st |-> "ok", n |-> n - 1]
     ELSE IF node.values = {} THEN out(NewPage(pages, nx), nx + 1, "panic")
     ELSE LET pg1 == NewPage(pages, nx)
              sp == split(node, nx)
          IN IF GoesToNew(sp.new, key)
             THEN IF n = 1 THEN out(pg1, nx + 1, "oom")
                  ELSE [pages |-> WritePage(pg1, sp.old.id, sp.old), nx |-> nx + 1,
                        cur |-> sp.new, other |-> <<sp.old>>, curIsNew |-> TRUE,
                        st |-> "ok", n |-> n - 2]
             ELSE IF n = 1 THEN out(WritePage(pg1, sp.new.id, sp.new), nx + 1, "oom")
                  ELSE [pages |-> WritePage(pg1, sp.new.id, sp.new), nx |-> nx + 1,
                        cur |-> sp.old, other |-> <<sp.new>>, curIsNew |-> FALSE,
                        st |-> "ok", n |-> n - 2]

RECURSIVE Descend_oom(_, _, _)
\* the body of _insert after the split: find_child, then fetch_page of the
\* child and the recursive call; an OutOfMemory leaves the pages as written so
\* far. The split step s, the child lookup fc and the child's result r are each
\* computed once
Descend_oom(s0, key, value) ==
  LET child(s, fc) ==
        IF fc.st # "ok" THEN ResN(fc.pages, fc.nx, <<>>, fc.st, 0)
        ELSE IF fc.ptr = -1
          THEN WithN(AtLeaf(fc.pages, fc.nx, s.cur, s.other, s.curIsNew, key, value), fc.n)
        ELSE IF fc.n = 0 THEN ResN(fc.pages, fc.nx, <<>>, "oom", 0)
        ELSE IF fc.pages[fc.ptr].t \notin {Internal, Leaf}
          THEN ResN(fc.pages, fc.nx, <<>>, "panic", 0)
        ELSE CHOOSE x \in
               {WithN(AfterChild(r, s.cur, s.other, s.curIsNew), r.n) :
                  r \in {Descend_oom(SplitStep_oom(fc.pages, fc.nx, PageToNode(fc.pages[fc.ptr]),
                                                   key, fc.n - 1), key, value)}} : TRUE
      own(s) ==
        IF s.st # "ok" THEN ResN(s.pages, s.nx, <<>>, s.st, 0)
        ELSE CHOOSE x \in {child(s, fc) :
                             fc \in {BTree_find_child_oom(s.pages, s.nx, s.cur, key, s.n)}} : TRUE
  IN CHOOSE x \in {own(s) : s \in {s0}} : TRUE

\* BTree::insert: new_page or fetch_page for the root, self.root = root.id,
\* _insert, new_page for a new root
BTree_insert_oom(pages, nx, root, max, key, value, n) ==
  LET fresh == root = -1
      pg0 == IF fresh THEN NewPage(pages, nx) ELSE pages
      nx0 == IF fresh THEN nx + 1 ELSE nx
      rootNode == IF fresh THEN NodeNew(nx, max, Leaf, TRUE) ELSE PageToNode(pages[root])
      done(r) ==
        IF r.st # "ok" THEN [pages |-> r.pages, nx |-> r.nx, root |-> rootNode.id, st |-> r.st]
        ELSE IF r.sep = <<>> THEN [pages |-> r.pages, nx |-> r.nx, root |-> rootNode.id, st |-> "ok"]
        ELSE IF r.n = 0 THEN [pages |-> r.pages, nx |-> r.nx, root |-> rootNode.id, st |-> "oom"]
        ELSE LET pg1 == NewPage(r.pages, r.nx)
                 nr == NodeNew(r.nx, max, Internal, TRUE)
                 nr2 == [nr EXCEPT !.values = InsertSeps({}, r.sep)]
             IN [pages |-> WritePage(pg1, r.nx, nr2), nx |-> r.nx + 1, root |-> r.nx, st |-> "ok"]
  IN IF n = 0 THEN [pages |-> pages, nx |-> nx, root |-> root, st |-> "oom"]
     ELSE CHOOSE x \in
            {done(r) : r \in {Descend_oom(SplitStep_oom(pg0, nx0, rootNode, key, n - 1),
                                          key, value)}} : TRUE

BTRest ==
  /\ bt_pages = <<>>
  /\ bt_next = 0
  /\ bt_root = -1
  /\ bt_st = "ok"
  /\ bt_map = <<>>
  /\ bt_n = 0

\* BTree::new with any max of MaxLo..MaxHi, over an empty page store
BTInit == bt_max \in MaxLo..MaxHi /\ BTRest

\* the tree left unused
BTIdle == bt_max = MaxLo /\ BTRest

\* one BTree.insert call; bt_map records the last value inserted under each key
Insert(key, value) ==
  /\ bt_st = "ok"
  /\ bt_n < MaxInserts
  /\ LET r == BTree_insert(bt_pages, bt_next, bt_root, bt_max, key, value)
     IN /\ bt_pages' = r.pages
        /\ bt_next' = r.nx
        /\ bt_root' = r.root
        /\ bt_st' = r.st
  /\ bt_map' = [k \in (DOMAIN bt_map) \cup {key} |-> IF k = key THEN value ELSE bt_map[k]]
  /\ bt_n' = bt_n + 1
  /\ UNCHANGED <<bt_max, bt_others>>

\* one BTree.insert call with the frame locks; a call that awaits a lock it
\* holds leaves bt_st = "blocked"
InsertLocked(key, value) ==
  /\ bt_st = "ok"
  /\ bt_n < MaxLockInserts
  /\ LET r == BTree_insert_locked(bt_pages, bt_next, bt_root, bt_max, key, value)
     IN /\ bt_pages' = r.pages
        /\ bt_next' = r.nx
        /\ bt_root' = r.root
        /\ bt_st' = r.st
  /\ bt_map' = [k \in (DOMAIN bt_map) \cup {key} |-> IF k = key THEN value ELSE bt_map[k]]
  /\ bt_n' = bt_n + 1
  /\ UNCHANGED <<bt_max, bt_others>>

\* one BTree.insert call in which the cache serves n calls and then has no
\* frame; bt_map records the key only if the insert returned Ok
InsertOom(key, value, n) ==
  /\ bt_st = "ok"
  /\ bt_n < MaxOomInserts
  /\ LET r == BTree_insert_oom(bt_pages, bt_next, bt_root, bt_max, key, value, n)
     IN /\ bt_pages' = r.pages
        /\ bt_next' = r.nx
        /\ bt_root' = r.root
        /\ bt_st' = r.st
        /\ bt_map' = IF r.st = "oom" THEN bt_map
                     ELSE [k \in (DOMAIN bt_map) \cup {key} |-> IF k = key THEN value ELSE bt_map[k]]
  /\ bt_n' = bt_n + 1
  /\ UNCHANGED <<bt_max, bt_others>>

\* ------------------------------------------------------------------ B+-tree claims

\* the search of the B+-tree design: at an internal node follow the first slot
\* whose key is strictly greater, else `next`; at a leaf look the key up.
\* The result is the value found, 0 when the key is not found.
RECURSIVE SearchFrom(_, _, _, _)
SearchFrom(pages, id, k, fuel) ==
  IF fuel = 0 \/ id \notin DOMAIN pages THEN 0
  ELSE LET page == pages[id]
           node == PageToNode(page)
       IN IF page.t = Leaf
          THEN IF \E s \in node.values : s.k = k
               THEN (CHOOSE s \in node.values : s.k = k).x ELSE 0
          ELSE IF page.t = Internal
          THEN LET gt == {s \in node.values : k < s.k}
               IN SearchFrom(pages, IF gt = {} THEN node.next ELSE SetFirst(gt).x, k, fuel - 1)
          ELSE 0

Search(k) == SearchFrom(bt_pages, bt_root, k, bt_next + 1)

\* C1: after any sequence of completed inserts, the search from the root finds
\* every inserted key with its last inserted value and no other key
C1_SearchConsistency ==
  bt_st = "ok" =>
    \A k \in BTKeys : Search(k) = (IF k \in DOMAIN bt_map THEN bt_map[k] ELSE 0)

\* the pages reachable from the root through slot pointers and `next` of
\* internal nodes
RECURSIVE Reach(_, _, _)
Reach(pages, ids, fuel) ==
  LET nxt == ids \cup UNION {
               IF id \in DOMAIN pages /\ pages[id].t = Internal
               THEN {pages[id].slots[i].x : i \in 1..Len(pages[id].slots)}
                    \cup (IF pages[id].next >= 0 THEN {pages[id].next} ELSE {})
               ELSE {} : id \in ids}
  IN IF fuel = 0 \/ nxt = ids THEN ids ELSE Reach(pages, nxt, fuel - 1)

TreePages == IF bt_root = -1 THEN {} ELSE Reach(bt_pages, {bt_root}, bt_next + 1)

TreeLeaves == {id \in TreePages \cap DOMAIN bt_pages : bt_pages[id].t = Leaf}

\* the leftmost leaf: follow the first slot pointer from the root
RECURSIVE LeftmostFrom(_, _, _)
LeftmostFrom(pages, id, fuel) ==
  IF fuel = 0 \/ id \notin DOMAIN pages THEN -1
  ELSE IF pages[id].t = Leaf THEN id
  ELSE IF pages[id].t = Internal /\ pages[id].slots # <<>>
       THEN LeftmostFrom(pages, pages[id].slots[1].x, fuel - 1)
  ELSE -1

\* the leaf ids met walking `next` from a leaf until -1
RECURSIVE ChainFrom(_, _, _)
ChainFrom(pages, id, fuel) ==
  IF fuel = 0 \/ id \notin DOMAIN pages \/ pages[id].t # Leaf THEN <<>>
  ELSE <<id>> \o ChainFrom(pages, pages[id].next, fuel - 1)

LeafChain == ChainFrom(bt_pages, LeftmostFrom(bt_pages, bt_root, bt_next + 1), bt_next + 1)

RECURSIVE ChainKeys(_, _)
ChainKeys(pages, chain) ==
  IF chain = <<>> THEN <<>>
  ELSE [i \in 1..Len(pages[Head(chain)].slots) |-> pages[Head(chain)].slots[i].k]
       \o ChainKeys(pages, Tail(chain))

\* C2: the leaf chain from the leftmost leaf visits every leaf of the tree
\* exactly once and yields every inserted key exactly once, strictly increasing
C2_LeafChainSorted ==
  (bt_st = "ok" /\ bt_root # -1) =>
    LET chain == LeafChain
        keys == ChainKeys(bt_pages, chain)
    IN /\ {chain[i] : i \in 1..Len(chain)} = TreeLeaves
       /\ \A i, j \in 1..Len(chain) : i # j => chain[i] # chain[j]
       /\ {keys[i] : i \in 1..Len(keys)} = DOMAIN bt_map
       /\ \A i \in 1..(Len(keys) - 1) : keys[i] < keys[i + 1]

\* C16: an insert ends Ok (or OutOfMemory), it never aborts on an internal fault
C16_NoInternalFault == bt_st # "panic"

\* the node pages stored in the tree
NodePages == {id \in DOMAIN bt_pages : bt_pages[id].t \in {Internal, Leaf}}

\* C17: with max >= 4, after every insert no stored node page holds more than
\* max slots
C17_LenAtMostMax ==
  bt_max >= 4 =>
    \A id \in NodePages :
      bt_pages[id].len <= bt_max /\ Len(bt_pages[id].slots) <= bt_max

\* the fourth insert split the internal root on the way down and one half
\* then took the separators of a child split
C17_Witness ==
  /\ bt_max >= 4 /\ bt_st = "ok" /\ bt_n = 4
  /\ \E id \in TreePages \cap NodePages :
       id # bt_root /\ bt_pages[id].t = Internal /\ bt_pages[id].len >= 2

\* after an insert that returned, the one stored node with is_root set is the
\* page BTree.root names
RootUnique ==
  (bt_st = "ok" /\ bt_root # -1) =>
    {id \in DOMAIN bt_pages : bt_pages[id].is_root > 0} = {bt_root}

\* an insert that replaces the root writes an Internal root holding exactly the
\* separators of the old root and of the page split off it, and the old root
\* is stored with is_root unset
RootSplitStep ==
  (bt_st' = "ok" /\ bt_root # -1 /\ bt_root' # bt_root) =>
    LET r == bt_pages'[bt_root']
    IN /\ bt_root' \notin DOMAIN bt_pages
       /\ r.t = Internal /\ r.is_root = 1
       /\ bt_pages'[bt_root].is_root = 0
       /\ \E h \in (DOMAIN bt_pages') \ (DOMAIN bt_pages) :
            /\ h # bt_root'
            /\ bt_pages'[h].t = bt_pages'[bt_root].t
            /\ PageToNode(r).values =
                 {get_separator(PageToNode(bt_pages'[bt_root])),
                  get_separator(PageToNode(bt_pages'[h]))}
            /\ r.len = 2

PageKeys(page) == {page.slots[i].k : i \in 1..Len(page.slots)}

\* an insert that splits a leaf p into a fresh leaf q (p's next becomes q)
\* leaves every key of p smaller than every key of q
SplitOrderStep ==
  bt_st' = "ok" =>
    \A p \in DOMAIN bt_pages, q \in (DOMAIN bt_pages') \ (DOMAIN bt_pages) :
      (bt_pages'[p].t = Leaf /\ bt_pages'[q].t = Leaf /\ bt_pages'[p].next = q) =>
        \A k \in PageKeys(bt_pages'[p]), l \in PageKeys(bt_pages'[q]) : k < l

\* C27: after a split during insert the key goes to the new (upper) node
\* exactly when it is not below that node's first key, so every key of the
\* lower half stays smaller than every key of the upper half
C27_SplitSideByFirstKey == [][SplitOrderStep]_vars

\* the page ids an internal page's slots point to
SlotPtrs(page) == {page.slots[i].x : i \in 1..Len(page.slots)}

\* an insert that only splits a leaf p into a fresh leaf q under the internal
\* node par: par is written back with a slot for each half, and routes every
\* key of a half to that half
ChildSplitStep ==
  bt_st' = "ok" =>
    \A p \in DOMAIN bt_pages, par \in DOMAIN bt_pages,
       q \in (DOMAIN bt_pages') \ (DOMAIN bt_pages) :
      ( /\ (DOMAIN bt_pages') \ (DOMAIN bt_pages) = {q}
        /\ bt_pages'[p].t = Leaf /\ bt_pages'[q].t = Leaf /\ bt_pages'[p].next = q
        /\ bt_pages[par].t = Internal /\ p \in SlotPtrs(bt_pages[par]) ) =>
        LET node == PageToNode(bt_pages'[par])
        IN /\ {p, q} \subseteq SlotPtrs(bt_pages'[par])
           /\ \A k \in PageKeys(bt_pages'[p]) : find_child(node, k) = p
           /\ \A k \in PageKeys(bt_pages'[q]) : find_child(node, k) = q

LeafSlots(pages) ==
  {<<id, i>> \in (DOMAIN pages) \X (1..MaxKey) :
     pages[id].t = Leaf /\ i <= Len(pages[id].slots)}

LeafPairs(pages) == {<<pages[s[1]].slots[s[2]].k, pages[s[1]].slots[s[2]].x>> : s \in LeafSlots(pages)}

\* an insert of a key that is present leaves the number of stored slots as it
\* was, and with the value that is present it leaves the stored pairs as they
\* were
ReplaceStep ==
  bt_st' = "ok" /\ DOMAIN bt_map' = DOMAIN bt_map =>
    /\ Cardinality(LeafSlots(bt_pages')) = Cardinality(LeafSlots(bt_pages))
    /\ Cardinality(LeafSlots(bt_pages')) = Cardinality(DOMAIN bt_map')
    /\ bt_map' = bt_map => LeafPairs(bt_pages') = LeafPairs(bt_pages)

\* C30: an insert of a present key replaces its value and leaves the number
\* of stored keys unchanged, one slot per key; the same key and value
\* inserted twice leaves the pairs of a single insert
C30_InsertOrReplace == [][ReplaceStep]_vars

\* C35: an insert call never awaits a frame write lock that it holds itself, in
\* a tree of any height, and so returns
C35_NoSelfAwait == bt_st # "blocked"

\* C36: if insert returns OutOfMemory, every key that the search from the root
\* found before the call is still found with the same value after it
OomKeepsStep ==
  (bt_st' = "oom") => \A k \in BTKeys : Search(k) # 0 => Search(k)' = Search(k)

C36_OomKeepsKeys == [][OomKeepsStep]_vars

RECURSIVE HalvesNonEmpty(_, _, _, _)
\* every split on the path of _insert for the key leaves both halves non-empty
HalvesNonEmpty(pages, nx, node, key) ==
  /\ almost_full(node) =>
       (split(node, nx).old.values # {} /\ split(node, nx).new.values # {})
  /\ LET s == SplitStep(pages, nx, node, key)
         fc == BTree_find_child(s.pages, s.nx, s.cur, key)
     IN (s.st = "ok" /\ fc.st = "ok" /\ fc.ptr # -1 /\ fc.pages[fc.ptr].t \in {Internal, Leaf})
          => HalvesNonEmpty(fc.pages, fc.nx, PageToNode(fc.pages[fc.ptr]), key)

\* C37: for every max >= 2, whenever insert splits an almost-full node both
\* halves are non-empty, so each has a last slot for its separator
C37_SplitHalvesNonEmpty ==
  (bt_st = "ok" /\ bt_max >= 2 /\ bt_n < MaxInserts) =>
    \A key \in 1..MaxWideKey :
      HalvesNonEmpty(bt_pages, bt_next,
                     IF bt_root = -1 THEN NodeNew(bt_next, bt_max, Leaf, TRUE)
                     ELSE PageToNode(bt_pages[bt_root]), key)

\* ------------------------------------------------------------------ extendible hash
\* keys 0..MaxHKey, each insert carries a fresh value (1, 2, ...), as the
\* repository's tests do; the hash of each key is any value of 0..HashMax
MaxHKey == 1
HashMax == 1
MaxHInserts == 9
MaxHRemoves == 1

\* directory capacity (dir_page::PAGE_IDS_SIZE_U32), scaled down
DirCap == 4

\* BUCKET_BIT_SIZE of test_split: one bitmap byte, 8 slots
BucketBitSize == 1

HTKeys == 0..MaxHKey

BucketSlots == 8 * BucketBitSize

Pow2(n) == 2 ^ n

\* Directory: global depth, local depths and page ids of slots 0..DirCap-1;
\* a zeroed directory page decodes to depth 0 and page id 0 (no bucket) everywhere
ZeroDirectory ==
  [global_depth |-> 0, local_depths |-> [i \in 0..(DirCap - 1) |-> 0],
   page_ids |-> [i \in 0..(DirCap - 1) |-> 0]]

global_depth_mask(dir) == Pow2(dir.global_depth) - 1

local_depth_mask(dir, i) == Pow2(dir.local_depths[i]) - 1

get_local_high_bit(dir, i) == Pow2(dir.local_depths[i])

\* Directory::insert: install a page id in a slot
DirInsert(dir, i, id) == [dir EXCEPT !.page_ids[i] = id]

\* the directory doubles: the new slots mirror the low half
incr_global_depth(dir) ==
  LET half == Pow2(dir.global_depth)
      mirrored(f) == [i \in 0..(DirCap - 1) |->
                        IF i >= half /\ i < 2 * half THEN f[i - half] ELSE f[i]]
  IN [global_depth |-> dir.global_depth + 1,
      local_depths |-> mirrored(dir.local_depths),
      page_ids |-> mirrored(dir.page_ids)]

\* x & mask for mask = 2^d - 1, and the test (x & bit) > 0 for bit = 2^d
AndMask(x, mask) == x % (mask + 1)

BitSet(x, bit) == (x \div bit) % 2 = 1

get_bucket_index(hash, k, dir) == AndMask(hash[k], global_depth_mask(dir)) % DirCap

\* Bucket: BucketSlots slots, each with its occupied bit and its pair
EmptySlot == [occ |-> FALSE, k |-> 0, v |-> 0]

ZeroBucket == [i \in 1..BucketSlots |-> EmptySlot]

\* Bucket::insert: the first unoccupied slot takes the pair
BucketInsert(b, k, v) ==
  IF \A i \in 1..BucketSlots : b[i].occ THEN b
  ELSE LET i == CHOOSE j \in 1..BucketSlots :
                  ~b[j].occ /\ \A h \in 1..(j - 1) : b[h].occ
       IN [b EXCEPT ![i] = [occ |-> TRUE, k |-> k, v |-> v]]

BucketHas(b, k, v) == \E i \in 1..BucketSlots : b[i].occ /\ b[i].k = k /\ b[i].v = v

\* Bucket::remove: the matching slot's occupied bit is cleared
BucketRemove(b, k, v) ==
  IF ~BucketHas(b, k, v) THEN b
  ELSE LET i == CHOOSE j \in 1..BucketSlots :
                  /\ b[j].occ /\ b[j].k = k /\ b[j].v = v
                  /\ \A h \in 1..(j - 1) : ~(b[h].occ /\ b[h].k = k /\ b[h].v = v)
       IN [b EXCEPT ![i].occ = FALSE]

\* Bucket::find: the values stored under the key
BucketFind(b, k) == {b[i].v : i \in {j \in 1..BucketSlots : b[j].occ /\ b[j].k = k}}

BucketIsFull(b) == \A i \in 1..BucketSlots : b[i].occ

\* Bucket::get_pairs: the occupied slots in slot order
BucketPairs(b) == SelectSeq(b, LAMBDA e : e.occ)

RECURSIVE Partition(_, _, _, _, _, _)
\* the reinsertion loop of a split: pairs whose index has the bit set go to
\* bucket1, the others to bucket0
Partition(pairs, hash, dir, bit, b0, b1) ==
  IF pairs = <<>> THEN [b0 |-> b0, b1 |-> b1]
  ELSE LET p == Head(pairs)
       IN IF BitSet(get_bucket_index(hash, p.k, dir), bit)
          THEN Partition(Tail(pairs), hash, dir, bit, b0, BucketInsert(b1, p.k, p.v))
          ELSE Partition(Tail(pairs), hash, dir, bit, BucketInsert(b0, p.k, p.v), b1)

\* the directory update loop of a split: every slot start, start+bit, ... below
\* the directory capacity is pointed at one of the two new pages
Redirect(dir, start, bit, page0, page1) ==
  [dir EXCEPT !.page_ids =
     [i \in 0..(DirCap - 1) |->
        IF i >= start /\ (i - start) % bit = 0
        THEN (IF BitSet(i, bit) THEN page0 ELSE page1)
        ELSE dir.page_ids[i]]]

HTPut(pages, id, b) == [p \in (DOMAIN pages) \cup {id} |-> IF p = id THEN b ELSE pages[p]]

\* a split that always doubles the directory
SplitGrows_always(dir, i) == TRUE

\* the test before incr_global_depth: the bucket's local depth equals the
\* global depth
SplitGrows(dir, i) == local_depth_mask(dir, i) = global_depth_mask(dir)

\* ExtendibleHashTable::insert
HT_insert(hash, dir0, pages0, nx0, removed0, k, v) ==
  LET bucket_index == get_bucket_index(hash, k, dir0)
      bucket_page_id == dir0.page_ids[bucket_index]
      fresh == bucket_page_id = 0
      pid == IF fresh THEN nx0 ELSE bucket_page_id
      dir1 == IF fresh THEN DirInsert(dir0, bucket_index, nx0) ELSE dir0
      pages1 == IF fresh THEN HTPut(pages0, nx0, ZeroBucket) ELSE pages0
      nx1 == IF fresh THEN nx0 + 1 ELSE nx0
      bucket == BucketInsert(pages1[pid], k, v)
      pages2 == HTPut(pages1, pid, bucket)
  IN IF ~BucketIsFull(bucket)
     THEN [dir |-> dir1, pages |-> pages2, nx |-> nx1, removed |-> removed0]
     ELSE
       LET dir2 == IF SplitGrows(dir1, bucket_index)
                   THEN incr_global_depth(dir1) ELSE dir1
           page0 == nx1
           page1 == nx1 + 1
           bit == get_local_high_bit(dir2, bucket_index)
           parts == Partition(BucketPairs(bucket), hash, dir2, bit, ZeroBucket, ZeroBucket)
           start == AndMask(get_bucket_index(hash, k, dir2), bit - 1)
           dir3 == Redirect(dir2, start, bit, page0, page1)
           pages3 == HTPut(HTPut(pages2, page0, parts.b0), page1, parts.b0)
       IN [dir |-> dir3, pages |-> pages3, nx |-> nx1 + 2,
           removed |-> removed0 \cup {pid}]

\* the PinGuards and frame locks insert holds when it calls remove_page: the
\* guards of the directory page, the bucket page and the two new pages are all
\* still in scope, each with its page write-locked
GuardsAtRemove(dirid, pid, page0, page1) ==
  <<[id |-> dirid, lock |-> "write"], [id |-> pid, lock |-> "write"],
    [id |-> page0, lock |-> "write"], [id |-> page1, lock |-> "write"]>>

\* no remove_page call
NoCall == [id |-> -1, pin |-> 0, lock |-> "none"]

\* the remove_page call of an insert: the page, its pin count (one per live
\* guard of the caller) and the frame lock the caller holds on it
RemoveCall(hash, dirid, dir0, nx0, removed0, removed1, k) ==
  IF removed1 = removed0 THEN NoCall
  ELSE LET bucket_page_id == dir0.page_ids[get_bucket_index(hash, k, dir0)]
           fresh == bucket_page_id = 0
           pid == IF fresh THEN nx0 ELSE bucket_page_id
           nx1 == IF fresh THEN nx0 + 1 ELSE nx0
           guards == GuardsAtRemove(dirid, pid, nx1, nx1 + 1)
           mine == SelectSeq(guards, LAMBDA g : g.id = pid)
       IN [id |-> pid, pin |-> Len(mine),
           lock |-> IF mine = <<>> THEN "none" ELSE mine[1].lock]

\* a remove that does not write the bucket page back
HT_remove_nowrite(hash, dir, pages, k, v) ==
  LET bucket_page_id == dir.page_ids[get_bucket_index(hash, k, dir)]
  IN IF bucket_page_id = 0 THEN [pages |-> pages, ret |-> FALSE]
     ELSE [pages |-> pages, ret |-> BucketHas(pages[bucket_page_id], k, v)]

\* ExtendibleHashTable::remove
HT_remove(hash, dir, pages, k, v) ==
  LET bucket_index == get_bucket_index(hash, k, dir)
      bucket_page_id == dir.page_ids[bucket_index]
  IN IF bucket_page_id = 0 THEN [pages |-> pages, ret |-> FALSE]
     ELSE [pages |-> HTPut(pages, bucket_page_id, BucketRemove(pages[bucket_page_id], k, v)),
           ret |-> BucketHas(pages[bucket_page_id], k, v)]

\* ExtendibleHashTable::get
HT_get(hash, dir, pages, k) ==
  LET bucket_page_id == dir.page_ids[get_bucket_index(hash, k, dir)]
  IN IF bucket_page_id = 0 THEN {} ELSE BucketFind(pages[bucket_page_id], k)

\* ExtendibleHashTable::get_num_buckets
HT_get_num_buckets(dir) == Pow2(dir.global_depth)

HTRest ==
  /\ ht_dir = ZeroDirectory
  /\ ht_pages = <<>>
  /\ ht_next = 1
  /\ ht_removed = {}
  /\ ht_live = {}
  /\ ht_cnt = 0
  /\ ht_rm = 0
  /\ ht_op = [name |-> "init", k |-> 0, v |-> 0, ret |-> FALSE]
  /\ ht_dirid = 0
  /\ ht_rmcall = NoCall

\* directory page 0, written zeroed; the allocator continues at 1
HTInit == ht_hash \in [HTKeys -> 0..HashMax] /\ HTRest

\* the hash table left unused
HTIdle == ht_hash = [k \in HTKeys |-> 0] /\ HTRest

\* insert(k, v) with the next fresh value v
HTInsert(k) ==
  /\ ht_cnt < MaxHInserts
  /\ LET v == ht_cnt + 1
         r == HT_insert(ht_hash, ht_dir, ht_pages, ht_next, ht_removed, k, v)
     IN /\ ht_dir' = r.dir
        /\ ht_pages' = r.pages
        /\ ht_next' = r.nx
        /\ ht_removed' = r.removed
        /\ ht_live' = ht_live \cup {<<k, v>>}
        /\ ht_op' = [name |-> "insert", k |-> k, v |-> v, ret |-> TRUE]
        /\ ht_rmcall' = RemoveCall(ht_hash, ht_dirid, ht_dir, ht_next, ht_removed, r.removed, k)
  /\ ht_cnt' = ht_cnt + 1
  /\ UNCHANGED <<ht_hash, ht_rm, ht_dirid, ht_others>>

\* remove(k, v) of any pair, stored or not
HTRemove(k, v) ==
  /\ ht_rm < MaxHRemoves
  /\ LET r == HT_remove(ht_hash, ht_dir, ht_pages, k, v)
     IN /\ ht_pages' = r.pages
        /\ ht_op' = [name |-> "remove", k |-> k, v |-> v, ret |-> r.ret]
  /\ ht_live' = ht_live \ {<<k, v>>}
  /\ ht_rm' = ht_rm + 1
  /\ ht_rmcall' = NoCall
  /\ UNCHANGED <<ht_hash, ht_dir, ht_next, ht_removed, ht_cnt, ht_dirid, ht_others>>

\* ------------------------------------------------------------------ hash claims

HTGet(k) == HT_get(ht_hash, ht_dir, ht_pages, k)

\* C3: get(k) returns every value v for which (k, v) was inserted and not removed
C3_LookupReturnsInserted == \A p \in ht_live : p[2] \in HTGet(p[1])

\* the slots in use: the first 2^global_depth of the directory
ActiveSlots == {i \in 0..(DirCap - 1) : i < Pow2(ht_dir.global_depth)}

\* number of occupied slots of the bucket a key is directed to
TargetOccupied(k) ==
  LET pid == ht_dir.page_ids[get_bucket_index(ht_hash, k, ht_dir)]
  IN IF pid = 0 THEN 0
     ELSE Cardinality({i \in 1..BucketSlots : ht_pages[pid][i].occ})

\* C4: remove(k, v) of a stored pair: get(k) no longer returns v, every other
\* pair that get returned is still returned, the directory is unchanged; remove
\* of a key whose directory slot has no bucket returns false and changes no page
C4_RemoveStep ==
  (ht_rm' = ht_rm + 1) =>
    LET k == ht_op'.k
        v == ht_op'.v
        pid == ht_dir.page_ids[get_bucket_index(ht_hash, k, ht_dir)]
    IN /\ ht_dir' = ht_dir
       /\ (v \in HTGet(k)) =>
            /\ ht_op'.ret
            /\ v \notin HT_get(ht_hash, ht_dir', ht_pages', k)
            /\ \A k2 \in HTKeys :
                 HT_get(ht_hash, ht_dir', ht_pages', k2)
                   = HTGet(k2) \ (IF k2 = k THEN {v} ELSE {})
       /\ (pid = 0) => (~ht_op'.ret /\ ht_pages' = ht_pages)

C5_DepthStep ==
  /\ (ht_cnt' = ht_cnt + 1) =>
       LET k == ht_op'.k
           bi == get_bucket_index(ht_hash, k, ht_dir)
           grows == /\ TargetOccupied(k) >= BucketSlots - 1
                    /\ ht_dir.local_depths[bi] = ht_dir.global_depth
       IN ht_dir'.global_depth = ht_dir.global_depth + (IF grows THEN 1 ELSE 0)
  /\ (ht_cnt' = ht_cnt) => ht_dir'.global_depth = ht_dir.global_depth
  /\ (ht_cnt' = BucketSlots /\ ht_rm' = 0) =>
       (ht_dir'.global_depth = 1 /\ HT_get_num_buckets(ht_dir') = 2)

C6_DirectoryInvariant ==
  /\ \A i \in ActiveSlots : ht_dir.local_depths[i] <= ht_dir.global_depth
  /\ \A i, j \in ActiveSlots :
       (ht_dir.page_ids[i] # 0 /\ ht_dir.page_ids[j] # 0) =>
         ((ht_dir.page_ids[i] = ht_dir.page_ids[j])
            <=> (AndMask(i, local_depth_mask(ht_dir, i)) = AndMask(j, local_depth_mask(ht_dir, i))))
  /\ Cardinality({ht_dir.page_ids[i] : i \in ActiveSlots} \ {0}) <= Pow2(ht_dir.global_depth)

\* ------------------------------------------------------------------ hash split claims

\* the pairs stored in a bucket
PairSet(b) == {<<b[i].k, b[i].v>> : i \in {j \in 1..BucketSlots : b[j].occ}}

\* the bucket page removed by the step, and the two pages the split allocated
SplitOld == CHOOSE id \in ht_removed' \ ht_removed : TRUE

SplitPage0 == ht_next' - 2

SplitPage1 == ht_next' - 1

\* the split bit 1 << old local depth of the slot the inserted key was directed to
SplitBit == get_local_high_bit(ht_dir, get_bucket_index(ht_hash, ht_op'.k, ht_dir))

\* the pairs of a bucket whose masked hash index has the split bit set, or clear
PairsWithBit(b, set) ==
  {p \in PairSet(b) : BitSet(get_bucket_index(ht_hash, p[1], ht_dir'), SplitBit) = set}

\* C31: when a full bucket is split, page0 stores exactly the pairs of the old
\* bucket whose masked hash index has the split bit clear and page1 exactly
\* those with the bit set, so that every pair is in exactly one of the pages
SplitPartitionStep ==
  (ht_removed' # ht_removed) =>
    /\ PairSet(ht_pages'[SplitPage0]) = PairsWithBit(ht_pages'[SplitOld], FALSE)
    /\ PairSet(ht_pages'[SplitPage1]) = PairsWithBit(ht_pages'[SplitOld], TRUE)

C31_SplitPartition == [][SplitPartitionStep]_vars

\* the directory the redirect loop starts from: doubled if the split grew it
SplitDir == IF ht_dir'.global_depth > ht_dir.global_depth THEN incr_global_depth(ht_dir) ELSE ht_dir

\* C32: after a split every active slot that pointed at the old bucket points at
\* one of the two new pages, the one whose pairs agree with the slot index on
\* the split bit, and carries local depth old + 1; no slot still points at the
\* old bucket and the slots of other buckets are unchanged
SplitRedirectStep ==
  (ht_removed' # ht_removed) =>
    \A i \in {j \in 0..(DirCap - 1) : j < Pow2(ht_dir'.global_depth)} :
      IF SplitDir.page_ids[i] = SplitOld
      THEN /\ ht_dir'.page_ids[i] \in {SplitPage0, SplitPage1}
           /\ \A p \in PairSet(ht_pages'[ht_dir'.page_ids[i]]) :
                BitSet(get_bucket_index(ht_hash, p[1], ht_dir'), SplitBit) = BitSet(i, SplitBit)
           /\ ht_dir'.local_depths[i] = SplitDir.local_depths[i] + 1
      ELSE ht_dir'.page_ids[i] = SplitDir.page_ids[i]

C32_SplitRedirect == [][SplitRedirectStep]_vars

\* C33: remove_page is only invoked on a page whose pin count is 0 and on which
\* the caller holds no frame lock
C33_RemoveUnpinned ==
  (ht_rmcall.id # -1) => (ht_rmcall.pin = 0 /\ ht_rmcall.lock = "none")

\* ---- any directory page id and allocator start
\* PageCache::new(disk, replacer, next_page_id) starts the allocator at
\* 0..MaxStart; the directory page is a page handed out before that start or
\* the page FarPage, which lies beyond every page the allocator hands out here
MaxStart == 1
FarPage == 64

HTStartInit ==
  /\ ht_hash \in [HTKeys -> 0..HashMax]
  /\ ht_dir = ZeroDirectory
  /\ ht_pages = <<>>
  /\ ht_next \in 0..MaxStart
  /\ ht_dirid \in {d \in 0..MaxStart : d < ht_next} \union {FarPage}
  /\ ht_removed = {}
  /\ ht_live = {}
  /\ ht_cnt = 0
  /\ ht_rm = 0
  /\ ht_op = [name |-> "init", k |-> 0, v |-> 0, ret |-> FALSE]
  /\ ht_rmcall = NoCall

\* C40: for every directory page id and allocator start, after an insert the
\* directory slot of the inserted key holds a bucket page whose id is not 0, the
\* value that insert, get and remove read as "no bucket"
C40_NoBucketAtZero ==
  ht_op.name = "insert" =>
    ht_dir.page_ids[get_bucket_index(ht_hash, ht_op.k, ht_dir)] # 0

\* ------------------------------------------------------------------ concurrent hash calls
\* MaxHTasks tasks make MaxHCalls calls in all on one table, which starts empty
\* or with its first bucket one pair short of full
MaxHTasks == 2
MaxHCalls == 3

\* values a remove is called with: pairs of the first inserts, stored or not
MaxHRemoveVal == 2

HTasks == 1..MaxHTasks

IdleTask == [pc |-> "idle", k |-> 0, v |-> 0, pid |-> 0, sp |-> <<>>, ret |-> {}]

RECURSIVE PreTable(_, _)
\* the table after n inserts made one after the other
PreTable(hash, n) ==
  IF n = 0 THEN [dir |-> ZeroDirectory, pages |-> <<>>, nx |-> 1, removed |-> {}]
  ELSE LET p == PreTable(hash, n - 1)
       IN HT_insert(hash, p.dir, p.pages, p.nx, p.removed, n % (MaxHKey + 1), n)

\* the frame lock of a page: any number of readers or one writer, a reader
\* also waits for a writer that waits; a task never passes its own lock
WaitsToWrite(task, dirid, page) ==
  {t \in HTasks : \/ task[t].pc = "insert_dir" /\ page = dirid
                  \/ task[t].pc \in {"insert_bucket", "remove_bucket"} /\ page = task[t].pid}

CanRead_always(held, task, dirid, page, t) == TRUE

CanRead(held, task, dirid, page, t) ==
  /\ ~\E h \in held : h.page = page /\ h.mode = "w"
  /\ WaitsToWrite(task, dirid, page) = {}

CanWrite(held, page, t) == ~\E h \in held : h.page = page

Lock(t, page, mode) == [t |-> t, page |-> page, mode |-> mode]

\* the guards of a call go out of scope when it returns
Release_leaky(held, t) == {h \in held : h.t # t \/ h.mode = "w"}

Release(held, t) == {h \in held : h.t # t}

HCIdle ==
  /\ hc_task = [t \in HTasks |-> IdleTask]
  /\ hc_held = {}
  /\ hc_commit = <<>>
  /\ hc_calls = 0

HCInit ==
  /\ ht_hash \in [HTKeys -> 0..HashMax]
  /\ \E n \in {0, BucketSlots - 1} :
       LET p == PreTable(ht_hash, n)
       IN /\ ht_dir = p.dir /\ ht_pages = p.pages /\ ht_next = p.nx /\ ht_removed = p.removed
          /\ hc_commit = [dir |-> p.dir, pages |-> p.pages, nx |-> p.nx, removed |-> p.removed]
  /\ ht_live = {} /\ ht_cnt = 0 /\ ht_rm = 0
  /\ ht_op = [name |-> "init", k |-> 0, v |-> 0, ret |-> FALSE]
  /\ ht_dirid = 0 /\ ht_rmcall = NoCall
  /\ hc_task = [t \in HTasks |-> IdleTask]
  /\ hc_held = {}
  /\ hc_calls = 0

Table == [dir |-> ht_dir, pages |-> ht_pages, nx |-> ht_next, removed |-> ht_removed]

TableUnchanged == UNCHANGED <<ht_dir, ht_pages, ht_next, ht_removed>>

HCRest == UNCHANGED <<ht_hash, ht_live, ht_cnt, ht_rm, ht_op, ht_dirid, ht_rmcall, htc_others>>

Goto(t, pc) == hc_task' = [hc_task EXCEPT ![t].pc = pc]

\* a task calls insert, get, remove or get_num_buckets: fetch_page of the
\* directory page; the value of an insert is fresh
Call(t, op, k, v) ==
  /\ hc_task[t].pc = "idle"
  /\ hc_calls < MaxHCalls
  /\ hc_calls' = hc_calls + 1
  /\ hc_task' = [hc_task EXCEPT ![t] =
       [IdleTask EXCEPT !.pc = op, !.k = k,
                        !.v = IF op = "insert_dir" THEN BucketSlots + hc_calls ELSE v]]
  /\ UNCHANGED <<hc_held, hc_commit>>
  /\ TableUnchanged /\ HCRest

\* insert: dir_page.page.write(), the directory is read; a slot without a
\* bucket gets a new page, and the directory is written
InsertDir(t) ==
  /\ hc_task[t].pc = "insert_dir"
  /\ CanWrite(hc_held, ht_dirid, t)
  /\ LET bucket_index == get_bucket_index(ht_hash, hc_task[t].k, ht_dir)
         bucket_page_id == ht_dir.page_ids[bucket_index]
         fresh == bucket_page_id = 0
     IN /\ ht_dir' = IF fresh THEN DirInsert(ht_dir, bucket_index, ht_next) ELSE ht_dir
        /\ ht_pages' = IF fresh THEN HTPut(ht_pages, ht_next, ZeroBucket) ELSE ht_pages
        /\ ht_next' = IF fresh THEN ht_next + 1 ELSE ht_next
        /\ hc_task' = [hc_task EXCEPT ![t].pc = "insert_bucket",
                                      ![t].pid = IF fresh THEN ht_next ELSE bucket_page_id]
  /\ hc_held' = hc_held \union {Lock(t, ht_dirid, "w")}
  /\ UNCHANGED <<ht_removed, hc_commit, hc_calls>>
  /\ HCRest

\* the reinsertion loop of a split run on an empty bucket, without recursion:
\* the pairs whose index has the bit set (or clear) take its first slots in
\* their order
PartitionOf(pairs, hash, dir, bit, set) ==
  LET sel == SelectSeq(pairs, LAMBDA p : BitSet(get_bucket_index(hash, p.k, dir), bit) = set)
  IN [i \in 1..BucketSlots |->
        IF i <= Len(sel) THEN [occ |-> TRUE, k |-> sel[i].k, v |-> sel[i].v] ELSE EmptySlot]

\* the split of a full bucket, in memory: the directory doubles if it has to,
\* two new pages are taken, the pairs are partitioned and the slots redirected
SplitPlan(hash, dir, bucket, nx, k) ==
  LET bucket_index == get_bucket_index(hash, k, dir)
      dir2 == IF SplitGrows(dir, bucket_index) THEN incr_global_depth(dir) ELSE dir
      bit == get_local_high_bit(dir2, bucket_index)
      start == AndMask(get_bucket_index(hash, k, dir2), bit - 1)
  IN [dir |-> Redirect(dir2, start, bit, nx, nx + 1), page0 |-> nx, page1 |-> nx + 1,
      bucket0 |-> PartitionOf(BucketPairs(bucket), hash, dir2, bit, FALSE),
      bucket1 |-> PartitionOf(BucketPairs(bucket), hash, dir2, bit, TRUE)]

\* insert: bucket_page.page.write(), the pair is put into the bucket and the
\* bucket written; a full bucket is split into two new pages in memory
InsertBucket(t) ==
  /\ hc_task[t].pc = "insert_bucket"
  /\ CanWrite(hc_held, hc_task[t].pid, t)
  /\ ht_pages' =
       LET pid == hc_task[t].pid
           bucket == BucketInsert(ht_pages[pid], hc_task[t].k, hc_task[t].v)
       IN IF BucketIsFull(bucket)
          THEN HTPut(HTPut(HTPut(ht_pages, pid, bucket), ht_next, ZeroBucket),
                     ht_next + 1, ZeroBucket)
          ELSE HTPut(ht_pages, pid, bucket)
  /\ ht_next' = IF BucketIsFull(ht_pages'[hc_task[t].pid]) THEN ht_next + 2 ELSE ht_next
  /\ hc_task' =
       IF BucketIsFull(ht_pages'[hc_task[t].pid])
       THEN [hc_task EXCEPT ![t].pc = "insert_write_dir",
               ![t].sp = SplitPlan(ht_hash, ht_dir, ht_pages'[hc_task[t].pid], ht_next,
                                   hc_task[t].k)]
       ELSE [hc_task EXCEPT ![t].pc = "insert_return"]
  /\ hc_held' =
       hc_held \union
         (IF BucketIsFull(ht_pages'[hc_task[t].pid])
          THEN {Lock(t, hc_task[t].pid, "w"), Lock(t, ht_next, "w"), Lock(t, ht_next + 1, "w")}
          ELSE {Lock(t, hc_task[t].pid, "w")})
  /\ UNCHANGED <<ht_dir, ht_removed, hc_commit, hc_calls>>
  /\ HCRest

\* insert: the three writes that end a split, then remove_page
InsertWriteDir(t) ==
  /\ hc_task[t].pc = "insert_write_dir"
  /\ ht_dir' = hc_task[t].sp.dir
  /\ Goto(t, "insert_write_page0")
  /\ UNCHANGED <<ht_pages, ht_next, ht_removed, hc_held, hc_commit, hc_calls>>
  /\ HCRest

InsertWritePage0(t) ==
  /\ hc_task[t].pc = "insert_write_page0"
  /\ ht_pages' = HTPut(ht_pages, hc_task[t].sp.page0, hc_task[t].sp.bucket0)
  /\ Goto(t, "insert_write_page1")
  /\ UNCHANGED <<ht_dir, ht_next, ht_removed, hc_held, hc_commit, hc_calls>>
  /\ HCRest

InsertWritePage1(t) ==
  /\ hc_task[t].pc = "insert_write_page1"
  /\ ht_pages' = HTPut(ht_pages, hc_task[t].sp.page1, hc_task[t].sp.bucket0)
  /\ Goto(t, "insert_remove_page")
  /\ UNCHANGED <<ht_dir, ht_next, ht_removed, hc_held, hc_commit, hc_calls>>
  /\ HCRest

InsertRemovePage(t) ==
  /\ hc_task[t].pc = "insert_remove_page"
  /\ ht_removed' = ht_removed \union {hc_task[t].pid}
  /\ Goto(t, "insert_return")
  /\ UNCHANGED <<ht_dir, ht_pages, ht_next, hc_held, hc_commit, hc_calls>>
  /\ HCRest

\* get, remove, get_num_buckets: dir_page.page.read(), the slot of the key is
\* read; a slot without a bucket ends the call
ReadDir(t) ==
  /\ hc_task[t].pc \in {"get_dir", "remove_dir", "num_dir"}
  /\ CanRead(hc_held, hc_task, ht_dirid, ht_dirid, t)
  /\ LET op == hc_task[t].pc
         bucket_page_id == ht_dir.page_ids[get_bucket_index(ht_hash, hc_task[t].k, ht_dir)]
     IN hc_task' = [hc_task EXCEPT
          ![t].pc = IF op = "num_dir" THEN "num_return"
                    ELSE IF op = "get_dir"
                      THEN (IF bucket_page_id = 0 THEN "get_return" ELSE "get_bucket")
                    ELSE (IF bucket_page_id = 0 THEN "remove_return" ELSE "remove_bucket"),
          ![t].pid = IF op = "num_dir" THEN 0 ELSE bucket_page_id,
          ![t].ret = IF op = "num_dir" THEN {HT_get_num_buckets(ht_dir)} ELSE {}]
  /\ hc_held' = hc_held \union {Lock(t, ht_dirid, "r")}
  /\ UNCHANGED <<hc_commit, hc_calls>>
  /\ TableUnchanged /\ HCRest

\* get: bucket_page.page.read(), the values under the key are collected
GetBucket(t) ==
  /\ hc_task[t].pc = "get_bucket"
  /\ CanRead(hc_held, hc_task, ht_dirid, hc_task[t].pid, t)
  /\ hc_task' = [hc_task EXCEPT ![t].pc = "get_return",
                                ![t].ret = BucketFind(ht_pages[hc_task[t].pid], hc_task[t].k)]
  /\ hc_held' = hc_held \union {Lock(t, hc_task[t].pid, "r")}
  /\ UNCHANGED <<hc_commit, hc_calls>>
  /\ TableUnchanged /\ HCRest

\* remove: bucket_page.page.write(), the pair is removed and the bucket written
RemoveBucket(t) ==
  /\ hc_task[t].pc = "remove_bucket"
  /\ CanWrite(hc_held, hc_task[t].pid, t)
  /\ LET pid == hc_task[t].pid
         pages == HTPut(ht_pages, pid, BucketRemove(ht_pages[pid], hc_task[t].k, hc_task[t].v))
     IN /\ ht_pages' = pages
        /\ hc_commit' = [hc_commit EXCEPT !.pages = HTPut(hc_commit.pages, pid, pages[pid])]
  /\ Goto(t, "remove_return")
  /\ hc_held' = hc_held \union {Lock(t, hc_task[t].pid, "w")}
  /\ UNCHANGED <<ht_dir, ht_next, ht_removed, hc_calls>>
  /\ HCRest

\* the call returns and its guards are dropped; the table an insert leaves
\* is the table later calls start from
Return(t) ==
  /\ hc_task[t].pc \in {"insert_return", "get_return", "remove_return", "num_return"}
  /\ hc_task' = [hc_task EXCEPT ![t] = IdleTask]
  /\ hc_held' = Release(hc_held, t)
  /\ hc_commit' = IF hc_task[t].pc = "insert_return" THEN Table ELSE hc_commit
  /\ UNCHANGED hc_calls
  /\ TableUnchanged /\ HCRest

\* the steps of a task inside a call
TaskStep(t) ==
  \/ InsertDir(t) \/ InsertBucket(t) \/ InsertWriteDir(t) \/ InsertWritePage0(t)
  \/ InsertWritePage1(t) \/ InsertRemovePage(t)
  \/ ReadDir(t) \/ GetBucket(t) \/ RemoveBucket(t) \/ Return(t)

\* ------------------------------------------------------------------ concurrent hash claims

\* an insert that holds the directory write lock
InsertsInside == {t \in HTasks : Lock(t, ht_dirid, "w") \in hc_held}

\* the tables a get may answer from: the one left by the calls that returned,
\* and the one an insert that is under way leaves when it returns
Views ==
  {hc_commit} \union
  {HT_insert(ht_hash, hc_commit.dir, hc_commit.pages, hc_commit.nx, hc_commit.removed,
             hc_task[t].k, hc_task[t].v) : t \in InsertsInside}

\* C38: a get that runs while an insert runs on the same table returns what the
\* table before the insert or the table after it holds under the key, and
\* never reads a page that a split has removed
C38_GetSeesBeforeOrAfter ==
  \A t \in HTasks :
    hc_task[t].pc = "get_return" =>
      /\ hc_task[t].ret \in {HT_get(ht_hash, w.dir, w.pages, hc_task[t].k) : w \in Views}
      /\ hc_task[t].pid \notin ht_removed

\* a get answered from a bucket made by a split while an insert waits for the
\* directory lock
C38_Witness ==
  \E t, u \in HTasks :
    /\ hc_task[t].pc = "get_return" /\ hc_task[t].ret # {}
    /\ hc_task[t].pid \in {ht_next - 2, ht_next - 1} /\ ht_removed # {}
    /\ hc_task[u].pc = "insert_dir"

\* C39: every call of insert, remove, get or get_num_buckets that a task
\* started returns
C39_CallsReturn == \A t \in HTasks : (hc_task[t].pc # "idle") ~> (hc_task[t].pc = "idle")

\* a remove waits for the write lock of a bucket that a get reads, both under
\* the directory read lock
C39_Witness ==
  \E t, u \in HTasks :
    /\ hc_task[t].pc = "remove_bucket" /\ Lock(t, ht_dirid, "r") \in hc_held
    /\ Lock(u, hc_task[t].pid, "r") \in hc_held /\ Lock(u, ht_dirid, "r") \in hc_held

\* ------------------------------------------------------------------ heap list
\* PAGE_SIZE, scaled down
PageSize == 64

\* tuple lengths offered to insert: two that fit a page, one that never does
LenSmall == 10
LenBig == 25
LenHuge == 60

\* number of distinct byte patterns offered, and of insert calls
MaxPattern == 2
MaxLInserts == 4

\* heap node header: next_page_id (4 bytes) and slot_count (4 bytes)
HeapHeader == 8

\* table::tuple::Slot::SIZE
SlotSize == 9

TupleLens == {LenSmall, LenBig, LenHuge}

\* the bytes of an inserted tuple: byte i of pattern b is i * b
TupleBytes(len, b) == [i \in 1..len |-> (i * b) % 256]

RId(page_id, slot_id) == [page_id |-> page_id, slot_id |-> slot_id]

\* a zeroed heap page: next_page_id 0, slot_count 0
ZeroHeapPage ==
  [next_page_id |-> 0, slot_count |-> 0, slots |-> <<>>, data |-> [i \in 1..PageSize |-> 0]]

\* TupleMeta::from(&[u8])
TupleMetaFrom(byte) == [deleted |-> byte > 1]

\* Slot::from(&[u8]) on the fields of a stored slot record
HeapSlotFrom(rec) == [offset |-> rec.offset, len |-> rec.len, meta |-> TupleMetaFrom(rec.meta)]

\* TupleInfoBuf::from(&Slot)
HeapSlotBuf(slot) ==
  [offset |-> slot.offset, len |-> slot.len, meta |-> IF slot.meta.deleted THEN 1 ELSE 0]

\* table::node::Node::from(&PageBuf)
HeapNodeFrom(page) ==
  [next_page_id |-> page.next_page_id,
   slots |-> [i \in 1..page.slot_count |-> HeapSlotFrom(page.slots[i])],
   data |-> page.data]

\* PageBuf::from(&table::node::Node)
HeapPageFrom(node) ==
  [next_page_id |-> node.next_page_id, slot_count |-> Len(node.slots),
   slots |-> [i \in 1..Len(node.slots) |-> HeapSlotBuf(node.slots[i])],
   data |-> node.data]

\* table::node::Node::insert: the slot directory grows up from the header, the
\* tuple region grows down from the end of the page; None (ok = FALSE) when
\* they would collide
HeapInsert(node, tuple_data, meta) ==
  LET n == Len(node.slots)
      top == IF n = 0 THEN PageSize ELSE node.slots[n].offset
      offset == top - Len(tuple_data)
  IN IF offset < HeapHeader + (n + 1) * SlotSize
     THEN [ok |-> FALSE, node |-> node, slot_id |-> 0]
     ELSE [ok |-> TRUE, slot_id |-> n,
           node |-> [node EXCEPT
             !.slots = Append(node.slots, [offset |-> offset, len |-> Len(tuple_data), meta |-> meta]),
             !.data = [i \in 1..PageSize |->
                         IF i > offset /\ i <= offset + Len(tuple_data)
                         THEN tuple_data[i - offset] ELSE node.data[i]]]]

\* table::node::Node::get: the tuple of an installed slot, else None
HeapGet(node, r_id) ==
  IF r_id.slot_id >= 0 /\ r_id.slot_id < Len(node.slots)
  THEN LET sl == node.slots[r_id.slot_id + 1]
       IN [kind |-> "some", meta |-> sl.meta,
           data |-> [i \in 1..sl.len |-> node.data[sl.offset + i]]]
  ELSE [kind |-> "none", meta |-> [deleted |-> FALSE], data |-> <<>>]

Fault == [kind |-> "fault", meta |-> [deleted |-> FALSE], data |-> <<>>]

\* fetch_page on the page store: a page never written reads as zeroes (short
\* read); a negative id is a read at a negative file offset, which fails
FetchFails(id) == id < 0

LsFetch(pages, id) == IF id \in DOMAIN pages THEN pages[id] ELSE ZeroHeapPage

LsPut(pages, id, page) == [p \in (DOMAIN pages) \cup {id} |-> IF p = id THEN page ELSE pages[p]]

\* a get that reads the list's first page whatever the rid's page id
List_get_first(pages, first, last, r_id) ==
  IF first = -1 \/ last = -1 THEN [kind |-> "none", meta |-> [deleted |-> FALSE], data |-> <<>>]
  ELSE HeapGet(HeapNodeFrom(LsFetch(pages, first)), r_id)

\* List::get
List_get(pages, first, last, r_id) ==
  IF first = -1 \/ last = -1 THEN [kind |-> "none", meta |-> [deleted |-> FALSE], data |-> <<>>]
  ELSE IF FetchFails(r_id.page_id) THEN Fault
  ELSE HeapGet(HeapNodeFrom(LsFetch(pages, r_id.page_id)), r_id)

\* List::insert; st is "ok" with a rid, or "panic" (todo!() / unreachable!())
List_insert(pages, nx, first, last, tuple_data, meta) ==
  LET fresh == last = -1
      pages0 == IF fresh THEN LsPut(pages, nx, ZeroHeapPage) ELSE pages
      nx0 == IF fresh THEN nx + 1 ELSE nx
      first0 == IF fresh THEN nx ELSE first
      last0 == IF fresh THEN nx ELSE last
      node == HeapNodeFrom(LsFetch(pages0, last0))
      ins == HeapInsert(node, tuple_data, meta)
  IN IF ins.ok
     THEN [pages |-> LsPut(pages0, last0, HeapPageFrom(ins.node)), nx |-> nx0,
           first |-> first0, last |-> last0, st |-> "ok", rid |-> RId(last0, ins.slot_id)]
     ELSE IF Len(node.slots) = 0
     THEN [pages |-> pages0, nx |-> nx0, first |-> first0, last |-> last0,
           st |-> "panic", rid |-> RId(-1, 0)]
     ELSE
       LET npage == nx0
           node1 == [node EXCEPT !.next_page_id = npage]
           pages1 == LsPut(LsPut(pages0, npage, ZeroHeapPage), last0, HeapPageFrom(node1))
           ins2 == HeapInsert(HeapNodeFrom(ZeroHeapPage), tuple_data, meta)
       IN IF ins2.ok
          THEN [pages |-> LsPut(pages1, npage, HeapPageFrom(ins2.node)), nx |-> nx0 + 1,
                first |-> first0, last |-> npage, st |-> "ok", rid |-> RId(npage, ins2.slot_id)]
          ELSE [pages |-> pages1, nx |-> nx0 + 1, first |-> first0, last |-> npage,
                st |-> "panic", rid |-> RId(-1, 0)]

NoIter == [state |-> "none", r_id |-> RId(-1, 0), end |-> RId(-1, 0), n |-> 0]

\* Iter::next: yield is <<bytes>> for Some(Ok(tuple)), <<>> for None
Iter_next(pages, first, last, it) ==
  IF it.end = it.r_id THEN [yield |-> <<>>, r_id |-> it.r_id, st |-> "ok"]
  ELSE LET got == List_get(pages, first, last, it.r_id)
       IN IF got.kind = "fault" THEN [yield |-> <<>>, r_id |-> it.r_id, st |-> "panic"]
          ELSE IF got.kind = "none" THEN [yield |-> <<>>, r_id |-> it.r_id, st |-> "ok"]
          ELSE
            LET node == HeapNodeFrom(LsFetch(pages, it.r_id.page_id))
            IN IF it.r_id.page_id = it.end.page_id /\ it.r_id.slot_id = it.end.slot_id - 1
               THEN [yield |-> <<got.data>>, st |-> "ok",
                     r_id |-> RId(it.r_id.page_id, it.r_id.slot_id + 1)]
               ELSE IF it.r_id.slot_id + 1 < Len(node.slots)
               THEN [yield |-> <<got.data>>, st |-> "ok",
                     r_id |-> RId(it.r_id.page_id, it.r_id.slot_id + 1)]
               ELSE IF node.next_page_id = 0
               THEN [yield |-> <<>>, r_id |-> it.r_id, st |-> "ok"]
               ELSE [yield |-> <<got.data>>, st |-> "ok", r_id |-> RId(node.next_page_id, 0)]

LSRest ==
  /\ ls_st = "ok"
  /\ ls_it = NoIter
  /\ ls_out = <<>>
  /\ ls_log = <<>>
  /\ ls_n = 0
  /\ ls_op = [name |-> "new", len |-> 0]

\* List::default over an empty store, or List::new(pc, p, p) on a page p just
\* taken from new_page (test_iter)
LSInit ==
  /\ \/ ls_pages = <<>> /\ ls_next = 0 /\ ls_first = -1 /\ ls_last = -1
     \/ ls_pages = (0 :> ZeroHeapPage) /\ ls_next = 1 /\ ls_first = 0 /\ ls_last = 0
  /\ LSRest

\* the list left unused
LSIdle == ls_pages = <<>> /\ ls_next = 0 /\ ls_first = -1 /\ ls_last = -1 /\ LSRest

\* one List.insert call (no iterator borrows the list)
ListInsert(len, b) ==
  /\ ls_st = "ok"
  /\ ls_it.state # "live"
  /\ ls_n < MaxLInserts
  /\ LET data == TupleBytes(len, b)
         r == List_insert(ls_pages, ls_next, ls_first, ls_last, data, [deleted |-> FALSE])
     IN /\ ls_pages' = r.pages
        /\ ls_next' = r.nx
        /\ ls_first' = r.first
        /\ ls_last' = r.last
        /\ ls_st' = r.st
        /\ ls_log' = IF r.st = "ok" THEN Append(ls_log, [rid |-> r.rid, data |-> data]) ELSE ls_log
  /\ ls_n' = ls_n + 1
  /\ ls_op' = [name |-> "insert", len |-> len]
  /\ UNCHANGED <<ls_it, ls_out, ls_others>>

\* an end cursor one slot short of the last page's slot count
List_iter_short(pages, first, last) ==
  [r_id |-> RId(first, 0),
   end |-> RId(last, Len(HeapNodeFrom(LsFetch(pages, last)).slots) - 1)]

\* List::iter: the cursor starts at the first page, the end cursor is the last
\* page and its slot count
List_iter(pages, first, last) ==
  [r_id |-> RId(first, 0),
   end |-> RId(last, Len(HeapNodeFrom(LsFetch(pages, last)).slots))]

\* one List.iter call; on a list without pages the fetch of page -1 fails
ListIter ==
  /\ ls_st = "ok"
  /\ ls_it.state # "live"
  /\ IF FetchFails(ls_last)
     THEN ls_st' = "panic" /\ UNCHANGED <<ls_it, ls_out>>
     ELSE /\ LET it == List_iter(ls_pages, ls_first, ls_last)
             IN ls_it' = [state |-> "live", r_id |-> it.r_id, end |-> it.end, n |-> Len(ls_log)]
          /\ ls_out' = <<>>
          /\ ls_st' = ls_st
  /\ ls_op' = [name |-> "iter", len |-> 0]
  /\ UNCHANGED <<ls_pages, ls_next, ls_first, ls_last, ls_log, ls_n, ls_others>>

\* one Iter::next call
IterNext ==
  /\ ls_st = "ok"
  /\ ls_it.state = "live"
  /\ LET r == Iter_next(ls_pages, ls_first, ls_last, ls_it)
     IN /\ ls_st' = r.st
        /\ ls_out' = ls_out \o r.yield
        /\ ls_it' = [ls_it EXCEPT !.r_id = r.r_id,
                                  !.state = IF r.yield = <<>> THEN "done" ELSE "live"]
  /\ ls_op' = [name |-> "next", len |-> 0]
  /\ UNCHANGED <<ls_pages, ls_next, ls_first, ls_last, ls_log, ls_n, ls_others>>

\* ------------------------------------------------------------------ heap list claims

\* the rids a caller may ask for: any page id from -1 (no page) up to the
\* allocator's next id, any slot id a page could hold
RIds == {RId(p, s) : p \in (-1)..ls_next, s \in 0..MaxLInserts}

LogRids == {ls_log[i].rid : i \in 1..Len(ls_log)}

\* C7: every insert of a tuple returned a rid, the rids are pairwise distinct,
\* and get(rid), through a handle on the same first/last page ids, returns the
\* bytes inserted under that rid, whatever was inserted later and on whichever
\* page of the chain the tuple lies
C7_InsertGetRoundTrip ==
  ls_st = "ok" =>
    /\ Len(ls_log) = ls_n
    /\ \A i, j \in 1..Len(ls_log) : i # j => ls_log[i].rid # ls_log[j].rid
    /\ \A i \in 1..Len(ls_log) :
         LET got == List_get(ls_pages, ls_first, ls_last, ls_log[i].rid)
         IN got.kind = "some" /\ got.data = ls_log[i].data

\* tuples on two pages of the chain, the first of them read back after the second
\* was inserted
C7_Witness ==
  /\ ls_st = "ok" /\ Len(ls_log) >= 3
  /\ ls_log[1].rid.page_id # ls_log[Len(ls_log)].rid.page_id
  /\ ls_log[1].data # ls_log[2].data

\* C8: an iterator created after n inserts yields the n inserted tuples in
\* insertion order, nothing else, then None
C8_IterationOrder ==
  LET want == [i \in 1..ls_it.n |-> ls_log[i].data]
  IN /\ ls_it.state = "done" => ls_out = want
     /\ ls_it.state = "live" =>
          (Len(ls_out) <= Len(want) /\ ls_out = SubSeq(want, 1, Len(ls_out)))

\* an iterator that crossed a page boundary and has returned None
C8_Witness ==
  /\ ls_it.state = "done" /\ ls_it.n >= 3 /\ Len(ls_out) = ls_it.n
  /\ ls_log[1].rid.page_id # ls_log[ls_it.n].rid.page_id

\* C9: get returns None for every rid on an uninitialised list and for every rid
\* no insert has returned
C9_GetNone ==
  \A r \in RIds :
    (ls_first = -1 \/ ls_last = -1 \/ r \notin LogRids) =>
      List_get(ls_pages, ls_first, ls_last, r).kind = "none"

\* C10: an insert of a tuple that fits no page ends with an error value, never
\* with a panic
C10_TooLargeIsError ==
  (ls_op.name = "insert" /\ HeapHeader + SlotSize + ls_op.len > PageSize) => ls_st # "panic"

\* ------------------------------------------------------------------ node codec
\* node values of either type with a header len of 0..MaxNodeLen and slots of
\* keys 1..MaxNodeLen, values and pointers
MaxNodeLen == 2

NodeSlots == {Slot(k, tag, 1) : k \in 1..MaxNodeLen, tag \in {TagValue, TagPointer}}

\* a BTreeSet holds one slot per key
NodeSlotSets == {vs \in SUBSET NodeSlots : \A e, f \in vs : e.k = f.k => e = f}

NodeValues ==
  [t : {Internal, Leaf}, is_root : BOOLEAN, len : 0..MaxNodeLen, max : {MaxLo},
   next : {-1, 1}, id : {0}, values : NodeSlotSets]

NDIdle == nd_in = NodeNew(0, MaxLo, Leaf, TRUE) /\ nd_out = <<>>

NDInit == nd_in \in NodeValues /\ nd_out = <<>>

\* Node::from(&PageBuf::from(&node))
NodeRoundTrip ==
  /\ nd_out = <<>>
  /\ nd_out' = PageToNode(NodeToPage(nd_in))
  /\ UNCHANGED <<nd_in, nd_others>>

\* C19: the node read back from the page image of a node equals that node,
\* header len included
C19_NodeRoundTrip == nd_out # <<>> => nd_out = nd_in

\* ------------------------------------------------------------------ node operations
\* nodes given to split, get_separators and find_child: keys of 1..MaxOpKey,
\* a leaf's slots hold values and an internal node's slots hold pointers (the
\* page MaxOpKey + k under key k); len is that of Node::new or the slot count
MaxOpKey == 4

OpNodes ==
  {[t |-> t, is_root |-> r, len |-> IF z THEN 0 ELSE Cardinality(ks), max |-> MaxLo,
    next |-> nx, id |-> 0,
    values |-> {Slot(k, IF t = Leaf THEN TagValue ELSE TagPointer,
                     IF t = Leaf THEN 1 ELSE MaxOpKey + k) : k \in ks}] :
     t \in {Internal, Leaf}, r \in BOOLEAN, z \in BOOLEAN,
     ks \in SUBSET (1..MaxOpKey), nx \in {-1, 2 * MaxOpKey + 1}}

\* the page ids given to split, and those of the other node of get_separators
OpIds == {2 * MaxOpKey + 2, 2 * MaxOpKey + 3}

NDOpInit == nd_in \in OpNodes /\ nd_out = <<>>

\* node.split(id); an empty node has no middle slot and the call panics
NodeSplit(id) ==
  /\ nd_out = <<>>
  /\ nd_out' = IF nd_in.values = {} THEN [op |-> "split", st |-> "panic"]
               ELSE [op |-> "split", st |-> "ok", id |-> id,
                     old |-> split(nd_in, id).old, new |-> split(nd_in, id).new]
  /\ UNCHANGED <<nd_in, nd_others>>

\* node.get_separators(other); a node without a last slot makes it panic
NodeGetSeparators(other) ==
  /\ nd_out = <<>>
  /\ nd_out' = IF other # <<>> /\ (nd_in.values = {} \/ other.values = {})
               THEN [op |-> "get_separators", st |-> "panic"]
               ELSE [op |-> "get_separators", st |-> "ok", other |-> other,
                     ret |-> get_separators(nd_in, other)]
  /\ UNCHANGED <<nd_in, nd_others>>

\* node.find_child(key)
NodeFindChild(key) ==
  /\ nd_out = <<>>
  /\ nd_out' = [op |-> "find_child", st |-> "ok", key |-> key,
                ret |-> find_child(nd_in, key)]
  /\ UNCHANGED <<nd_in, nd_others>>

\* ------------------------------------------------------------------ node operation claims
SplitDone == nd_out # <<>> /\ nd_out.op = "split" /\ nd_out.st = "ok"

\* the i smallest slots of a set
Smallest(values, i) == {e \in values : Cardinality({f \in values : f.k < e.k}) < i}

\* C23: split of a node of n >= 2 slots leaves the floor(n/2) smallest slots
\* in the old node and the others in the new one, with both len fields the
\* slot counts, the given id, the old type and max, and is_root false on both
C23_SplitHalves ==
  SplitDone /\ Cardinality(nd_in.values) >= 2 =>
    LET n == Cardinality(nd_in.values)
        old == nd_out.old
        new == nd_out.new
    IN /\ old.values = Smallest(nd_in.values, n \div 2)
       /\ new.values = nd_in.values \ old.values
       /\ Cardinality(old.values) = n \div 2
       /\ Cardinality(new.values) = n - (n \div 2)
       /\ \A e \in old.values, f \in new.values : e.k < f.k
       /\ old.len = Cardinality(old.values) /\ new.len = Cardinality(new.values)
       /\ new.id = nd_out.id /\ old.id = nd_in.id
       /\ new.t = nd_in.t /\ old.t = nd_in.t
       /\ new.max = nd_in.max /\ old.max = nd_in.max
       /\ ~old.is_root /\ ~new.is_root

\* a root of three slots with a stale len was split
C23_Witness ==
  /\ SplitDone /\ Cardinality(nd_in.values) = 3
  /\ nd_in.is_root /\ nd_in.len = 0
  /\ Cardinality(nd_out.old.values) = 1 /\ Cardinality(nd_out.new.values) = 2

\* C24: after the split of a leaf the old leaf's next is the new leaf and the
\* new leaf's next is what the old leaf's next was
C24_LeafChainSpliced ==
  SplitDone /\ nd_in.t = Leaf =>
    /\ nd_out.old.next = nd_out.new.id
    /\ nd_out.new.next = nd_in.next

\* a leaf that had a successor was split
C24_Witness ==
  /\ SplitDone /\ nd_in.t = Leaf /\ nd_in.next # -1
  /\ nd_out.new.next = nd_in.next /\ nd_out.new.values # {}

SeparatorOf(node) ==
  [k |-> IF node.t = Leaf THEN SetLast(node.values).k + 1 ELSE SetLast(node.values).k,
   tag |-> TagPointer, x |-> node.id]

\* C25: get_separators returns None without a split half and else the pair of
\* separators, each the last key (incremented for a leaf) with a pointer to
\* the node's own page
C25_Separators ==
  nd_out # <<>> /\ nd_out.op = "get_separators" /\ nd_out.st = "ok" =>
    IF nd_out.other = <<>> THEN nd_out.ret = <<>>
    ELSE nd_out.ret = <<SeparatorOf(nd_in), SeparatorOf(nd_out.other)>>

\* the separators of a leaf and its split half were taken
C25_Witness ==
  /\ nd_out # <<>> /\ nd_out.op = "get_separators" /\ nd_out.st = "ok"
  /\ nd_out.other # <<>> /\ nd_in.t = Leaf
  /\ nd_out.ret[1].k = SetLast(nd_in.values).k + 1
  /\ nd_out.ret[2].x = nd_out.other.id

\* C26: find_child of an internal node is the pointer of the first slot with
\* a key greater than the key, else next, None if that is -1; None on a leaf
C26_FindChild ==
  nd_out # <<>> /\ nd_out.op = "find_child" =>
    IF nd_in.t = Leaf THEN nd_out.ret = -1
    ELSE IF \E s \in nd_in.values : s.k > nd_out.key
    THEN \E s \in nd_in.values :
           /\ s.k > nd_out.key /\ nd_out.ret = s.x
           /\ \A e \in nd_in.values : e.k > nd_out.key => s.k <= e.k
    ELSE nd_out.ret = nd_in.next

\* a key equal to a separator was routed to the slot after it
C26_Witness ==
  /\ nd_out # <<>> /\ nd_out.op = "find_child" /\ nd_in.t = Internal
  /\ \E s \in nd_in.values : s.k = nd_out.key
  /\ \E s \in nd_in.values : s.k > nd_out.key /\ nd_out.ret = s.x

\* ------------------------------------------------------------------ tuple comparator
\* schemas of 1..MaxCols columns; integers of -MaxInt..MaxInt, strings of the
\* bytes 'a', 'b' up to MaxStr long
MaxCols == 2
MaxInt == 1
MaxStr == 2

Types == {"TinyInt", "Bool", "Int", "BigInt", "Varchar"}

RECURSIVE Strings(_)
Strings(n) ==
  IF n = 0 THEN {<<>>}
  ELSE Strings(n - 1) \cup {<<c>> \o w : c \in {97, 98}, w \in {x \in Strings(n - 1) : Len(x) = n - 1}}

Vals(ty) ==
  IF ty = "Bool" THEN BOOLEAN
  ELSE IF ty = "Varchar" THEN Strings(MaxStr)
  ELSE (-MaxInt)..MaxInt

RECURSIVE TuplesOf(_)
TuplesOf(schema) ==
  IF schema = <<>> THEN {<<>>}
  ELSE {<<v>> \o r : v \in Vals(Head(schema)), r \in TuplesOf(Tail(schema))}

Schemas == UNION {[1..n -> Types] : n \in 1..MaxCols}

\* Column::size: the inline width of a column
ColumnSize(ty) ==
  IF ty = "TinyInt" \/ ty = "Bool" THEN 1
  ELSE IF ty = "Int" THEN 4
  ELSE IF ty = "BigInt" THEN 8
  ELSE 4

\* Column.offset: columns are laid out one after the other
RECURSIVE ColumnOffset(_, _)
ColumnOffset(schema, i) ==
  IF i = 1 THEN 0 ELSE ColumnOffset(schema, i - 1) + ColumnSize(schema[i - 1])

\* to_be_bytes of an n-byte two's complement integer; bytes above the low four
\* are the sign extension
ToBE(v, n) ==
  [i \in 1..n |->
     IF n - i >= 4 THEN (IF v < 0 THEN 255 ELSE 0)
     ELSE (v \div (256 ^ (n - i))) % 256]

\* TupleBuilder::add: the inline bytes of a value; a varchar reserves two bytes
\* for the offset and stores its length
AddBytes(ty, v) ==
  IF ty = "TinyInt" THEN ToBE(v, 1)
  ELSE IF ty = "Bool" THEN <<IF v THEN 1 ELSE 0>>
  ELSE IF ty = "Int" THEN ToBE(v, 4)
  ELSE IF ty = "BigInt" THEN ToBE(v, 8)
  ELSE <<0, 0>> \o ToBE(Len(v), 2)

RECURSIVE Inline(_, _)
Inline(schema, vals) ==
  IF schema = <<>> THEN <<>>
  ELSE AddBytes(Head(schema), Head(vals)) \o Inline(Tail(schema), Tail(vals))

\* TupleBuilder::build: each varchar, in column order, gets the current length
\* of the data as its offset and its bytes are appended
RECURSIVE BuildFrom(_, _, _, _)
BuildFrom(schema, vals, i, data) ==
  IF i > Len(schema) THEN data
  ELSE IF schema[i] # "Varchar" THEN BuildFrom(schema, vals, i + 1, data)
  ELSE LET oo == ColumnOffset(schema, i)
           off == ToBE(Len(data), 2)
           patched == [j \in 1..Len(data) |->
                         IF j = oo + 1 THEN off[1] ELSE IF j = oo + 2 THEN off[2] ELSE data[j]]
       IN BuildFrom(schema, vals, i + 1, patched \o vals[i])

Build(schema, vals) == BuildFrom(schema, vals, 1, Inline(schema, vals))

Signed(b) == IF b >= 128 THEN b - 256 ELSE b

\* Value::from: the column's value read from the tuple bytes.  An i64 is kept
\* as its big-endian digits with the first one signed, which order as the
\* integers do
ValueFrom(schema, i, data) ==
  LET ty == schema[i]
      o == ColumnOffset(schema, i)
  IN IF ty = "TinyInt" THEN Signed(data[o + 1])
     ELSE IF ty = "Bool" THEN data[o + 1] > 0
     ELSE IF ty = "Int"
       THEN Signed(data[o + 1]) * 16777216 + data[o + 2] * 65536 + data[o + 3] * 256 + data[o + 4]
     ELSE IF ty = "BigInt"
       THEN [j \in 1..8 |-> IF j = 1 THEN Signed(data[o + 1]) ELSE data[o + j]]
     ELSE LET offset == data[o + 1] * 256 + data[o + 2]
              size == data[o + 3] * 256 + data[o + 4]
          IN SubSeq(data, offset + 1, offset + size)

IntCmp(x, y) == IF x < y THEN "Less" ELSE IF x > y THEN "Greater" ELSE "Equal"

\* the order of two byte strings, and of two digit sequences of one length
RECURSIVE SeqCmp(_, _)
SeqCmp(x, y) ==
  IF x = <<>> THEN (IF y = <<>> THEN "Equal" ELSE "Less")
  ELSE IF y = <<>> THEN "Greater"
  ELSE IF Head(x) # Head(y) THEN IntCmp(Head(x), Head(y))
  ELSE SeqCmp(Tail(x), Tail(y))

\* Ord for Value on two values of one variant
ValueCmp(ty, l, r) ==
  IF ty = "Bool" THEN IntCmp(IF l THEN 1 ELSE 0, IF r THEN 1 ELSE 0)
  ELSE IF ty = "Varchar" \/ ty = "BigInt" THEN SeqCmp(l, r)
  ELSE IntCmp(l, r)

Comparand_cmp_first(schema, a, b, i) ==
  ValueCmp(schema[1], ValueFrom(schema, 1, a), ValueFrom(schema, 1, b))

\* Ord for Comparand: the first column, from column i on, whose values differ
\* decides
RECURSIVE Comparand_cmp(_, _, _, _)
Comparand_cmp(schema, a, b, i) ==
  IF i > Len(schema) THEN "Equal"
  ELSE LET c == ValueCmp(schema[i], ValueFrom(schema, i, a), ValueFrom(schema, i, b))
       IN IF c # "Equal" THEN c ELSE Comparand_cmp(schema, a, b, i + 1)

CMRest ==
  /\ cm_abytes = Build(cm_schema, cm_a)
  /\ cm_bbytes = Build(cm_schema, cm_b)
  /\ cm_res = "none"

CMIdle == cm_schema = <<"Bool">> /\ cm_a = <<FALSE>> /\ cm_b = <<FALSE>> /\ CMRest

\* two tuples built by TupleBuilder for one schema
CMInit ==
  /\ cm_schema \in Schemas
  /\ cm_a \in TuplesOf(cm_schema)
  /\ cm_b \in TuplesOf(cm_schema)
  /\ CMRest

\* Comparand(schema, a).cmp(&Comparand(schema, b))
Compare ==
  /\ cm_res = "none"
  /\ cm_res' = Comparand_cmp(cm_schema, cm_abytes, cm_bbytes, 1)
  /\ UNCHANGED <<cm_schema, cm_a, cm_b, cm_abytes, cm_bbytes, cm_others>>

\* the order of two column values
ColOrder(ty, x, y) ==
  IF ty = "Bool" THEN (IF x = y THEN "Equal" ELSE IF y THEN "Less" ELSE "Greater")
  ELSE IF ty = "Varchar" THEN SeqCmp(x, y)
  ELSE IntCmp(x, y)

\* the lexicographic order of two rows of column values
LexOrder(schema, x, y) ==
  IF \A i \in 1..Len(schema) : x[i] = y[i] THEN "Equal"
  ELSE LET d == CHOOSE i \in 1..Len(schema) :
                  x[i] # y[i] /\ \A j \in 1..(i - 1) : x[j] = y[j]
       IN ColOrder(schema[d], x[d], y[d])

\* C20: Comparand::cmp on the bytes of two tuples is the lexicographic order
\* of their column values in schema order
C20_ComparandLexicographic ==
  cm_res # "none" => cm_res = LexOrder(cm_schema, cm_a, cm_b)

\* two tuples that agree on the first column and differ on the second, one of
\* the two values negative
C20_Witness ==
  /\ cm_res \in {"Less", "Greater"} /\ Len(cm_schema) = 2
  /\ cm_a[1] = cm_b[1]
  /\ cm_schema[2] \in {"TinyInt", "Int", "BigInt"}
  /\ cm_a[2] < 0 /\ cm_b[2] >= 0

\* ------------------------------------------------------------------ heap slot record
\* offsets and lengths given to the slot codec: 0..MaxSlotField and values
\* that fill one, two, three and four bytes
MaxSlotField == 4

SlotFields == (0..MaxSlotField) \union {255, 256, 65536 + 255, 256 * 65536 + 1}

HeapSlots == [offset : SlotFields, len : SlotFields, meta : [deleted : BOOLEAN]]

RECURSIVE FromBE(_)
\* u32::from_be_bytes
FromBE(bytes) ==
  IF bytes = <<>> THEN 0
  ELSE FromBE(SubSeq(bytes, 1, Len(bytes) - 1)) * 256 + bytes[Len(bytes)]

\* TupleInfoBuf::from(&Slot): offset and len as four big-endian bytes each,
\* then the deleted flag as one byte
TupleInfoBuf_from(value) ==
  ToBE(value.offset, 4) \o ToBE(value.len, 4) \o <<IF value.meta.deleted THEN 1 ELSE 0>>

\* Slot::from(&[u8])
Slot_from(buf) ==
  [offset |-> FromBE(SubSeq(buf, 1, 4)), len |-> FromBE(SubSeq(buf, 5, 8)),
   meta |-> TupleMetaFrom(buf[SlotSize])]

SLInit == nd_in \in HeapSlots /\ nd_out = <<>>

\* the slot is encoded and decoded; a tuple is inserted with the slot's meta
\* into a new list and read back with List.get
SlotRoundTrip ==
  /\ nd_out = <<>>
  /\ LET r == List_insert(<<>>, 0, -1, -1, TupleBytes(LenSmall, 1), nd_in.meta)
     IN nd_out' = [op |-> "slot", buf |-> TupleInfoBuf_from(nd_in),
                   ret |-> Slot_from(TupleInfoBuf_from(nd_in)),
                   got |-> List_get(r.pages, r.first, r.last, r.rid)]
  /\ UNCHANGED <<nd_in, nd_others>>

\* C34: decoding the 9-byte encoding of a slot yields the same offset, len and
\* meta.deleted, and List.get returns the TupleMeta passed to the insert, for
\* deleted = true as for deleted = false
C34_SlotRoundTrip ==
  (nd_out # <<>> /\ nd_out.op = "slot") =>
    /\ Len(nd_out.buf) = SlotSize
    /\ nd_out.ret = nd_in
    /\ nd_out.got.kind = "some" /\ nd_out.got.meta = nd_in.meta

\* ------------------------------------------------------------------ page cache
\* The page cache, its replacer and PinGuard are used by every structure but
\* are not among the sources; they are modelled from the design (sections 4.2,
\* 4.3 and 5).  A page's bytes are one value of 0..MaxByte.  The bookkeeping
\* of one call (table, pins, free list, replacer, write-back of the victim)
\* is one step under the table lock; the disk read of a cache miss is a
\* second step, taken later by the loading task while it holds the frame.

\* frames of the pool, page ids the allocator hands out, tasks, guards one
\* task holds at a time (a call that ends with OutOfMemory hands out none),
\* largest byte, accesses recorded, K of LRU-K
PoolSize == 2
MaxPages == 3
MaxTasks == 2
MaxGuards == 1
MaxByte == 1
MaxClock == 4
LruK == 2

Frames == 1..PoolSize
PageIds == 0..(MaxPages - 1)
Tasks == 1..MaxTasks
Bytes == 0..MaxByte

\* a frame that holds no page
EmptyFrame == [id |-> -1, data |-> 0, pin |-> 0, dirty |-> FALSE, loading |-> FALSE]

NoOp == [name |-> "none", res |-> "ok", id |-> -1, evicted |-> FALSE, vpin |-> 0]

\* Replacer::record_access: the last LruK timestamps of the frame
record_access(hist, f, now) ==
  [hist EXCEPT ![f] = LET h == Append(@, now)
                      IN IF Len(h) > LruK THEN Tail(h) ELSE h]

\* Replacer::remove
replacer_remove(hist, f) == [hist EXCEPT ![f] = <<>>]

Candidates_registered(frames, hist, ev) == {f \in Frames : hist[f] # <<>>}

\* the frames the replacer may evict: registered, evictable, pin count zero
Candidates(frames, hist, ev) ==
  {f \in Frames : hist[f] # <<>> /\ ev[f] /\ frames[f].pin = 0}

\* f is evicted before g: fewer than LruK accesses first, then the older
\* K-th most recent (or earliest) access
Older(hist, f, g) ==
  IF Len(hist[f]) < LruK /\ Len(hist[g]) >= LruK THEN TRUE
  ELSE IF Len(hist[f]) >= LruK /\ Len(hist[g]) < LruK THEN FALSE
  ELSE hist[f][1] <= hist[g][1]

\* Replacer::victim (0 for None)
victim(frames, hist, ev) ==
  LET c == Candidates(frames, hist, ev)
  IN IF c = {} THEN 0 ELSE CHOOSE f \in c : \A g \in c : Older(hist, f, g)

ObtainFrame_free_only(frames, free, hist, ev) ==
  IF free # <<>> THEN [ok |-> TRUE, f |-> Head(free), evict |-> FALSE]
  ELSE [ok |-> FALSE, f |-> 0, evict |-> FALSE]

\* a frame for a page that is not resident: the head of the free list, else
\* the replacer's victim, else none (OutOfMemory)
ObtainFrame(frames, free, hist, ev) ==
  IF free # <<>> THEN [ok |-> TRUE, f |-> Head(free), evict |-> FALSE]
  ELSE LET v == victim(frames, hist, ev)
       IN IF v # 0 THEN [ok |-> TRUE, f |-> v, evict |-> TRUE]
          ELSE [ok |-> FALSE, f |-> 0, evict |-> FALSE]

WriteBack_skip(disk, old, evict) == disk

\* eviction writes the victim to disk if its dirty flag is set
WriteBack(disk, old, evict) ==
  IF evict /\ old.dirty THEN [disk EXCEPT ![old.id] = old.data] ELSE disk

\* eviction then removes the victim from the table
Uninstall(table, old, evict) ==
  IF evict THEN [table EXCEPT ![old.id] = 0] ELSE table

Install_late(table, id, f) == table

\* the page id is entered in the table under the table lock
Install(table, id, f) == [table EXCEPT ![id] = f]

Unpin_unless_dirty(fr) == IF fr.dirty THEN fr ELSE [fr EXCEPT !.pin = @ - 1]

\* PinGuard drop decrements the pin count
Unpin(fr) == [fr EXCEPT !.pin = @ - 1]

RemoveAt(s, i) == SubSeq(s, 1, i - 1) \o SubSeq(s, i + 1, Len(s))

\* the part new_page and a fetch_page miss share once a frame was obtained:
\* write-back and removal of the victim, the frame set up for page id with
\* pin 1, not evictable, one access recorded, a guard handed to the task
TakeFrame(t, id, o, how, loading) ==
  LET old == pc_frames[o.f]
  IN /\ pc_disk' = WriteBack(pc_disk, old, o.evict)
     /\ pc_table' = Install(Uninstall(pc_table, old, o.evict), id, o.f)
     /\ pc_free' = IF o.evict THEN pc_free ELSE Tail(pc_free)
     /\ pc_frames' = [pc_frames EXCEPT ![o.f] =
                        [id |-> id, data |-> IF loading THEN old.data ELSE 0,
                         pin |-> 1, dirty |-> FALSE, loading |-> loading]]
     /\ pc_hist' = record_access(replacer_remove(pc_hist, o.f), o.f, pc_clock)
     /\ pc_evictable' = [pc_evictable EXCEPT ![o.f] = FALSE]
     /\ pc_clock' = pc_clock + 1
     /\ pc_guards' = [pc_guards EXCEPT ![t] =
                        Append(@, [id |-> id, frame |-> o.f, how |-> how,
                                   inflight |-> FALSE])]
     /\ pc_loader' = IF loading THEN [pc_loader EXCEPT ![t] = o.f] ELSE pc_loader
     /\ pc_loads' = IF o.evict /\ old.id \in PageIds
                    THEN [pc_loads EXCEPT ![old.id] = 0] ELSE pc_loads
     /\ pc_wb' = IF o.evict /\ old.dirty THEN pc_wb \union {old.id} ELSE pc_wb
     /\ pc_op' = [name |-> IF loading THEN "fetch" ELSE "new", res |-> "ok",
                  id |-> id, evicted |-> o.evict,
                  vpin |-> IF o.evict THEN old.pin ELSE 0]

\* OutOfMemory: nothing but the call's outcome changes
OutOfMemory(name, id) ==
  /\ pc_op' = [name |-> name, res |-> "oom", id |-> id, evicted |-> FALSE, vpin |-> 0]
  /\ UNCHANGED <<pc_frames, pc_table, pc_free, pc_hist, pc_evictable, pc_clock,
                 pc_disk, pc_guards, pc_loader, pc_loads, pc_wb>>

\* PageCache::new_page by task t
new_page(t) ==
  /\ pc_loader[t] = 0 /\ pc_next < MaxPages /\ pc_clock < MaxClock
  /\ pc_next' = pc_next + 1
  /\ LET o == ObtainFrame(pc_frames, pc_free, pc_hist, pc_evictable)
     IN IF o.ok
        THEN /\ Len(pc_guards[t]) < MaxGuards
             /\ TakeFrame(t, pc_next, o, "new", FALSE)
             /\ pc_written' = [pc_written EXCEPT ![pc_next] = 0]
        ELSE /\ OutOfMemory("new", pc_next)
             /\ UNCHANGED pc_written
  /\ UNCHANGED <<pc_removed, pc_others>>

\* PageCache::fetch_page(id) by task t, up to the disk read: a hit pins the
\* frame the table names; a miss obtains a frame and enters id in the table
fetch_page(t, id) ==
  /\ pc_loader[t] = 0
  /\ id < pc_next /\ id \notin pc_removed /\ pc_clock < MaxClock
  /\ IF pc_table[id] # 0
     THEN LET f == pc_table[id]
          IN /\ Len(pc_guards[t]) < MaxGuards
             /\ pc_frames' = [pc_frames EXCEPT ![f].pin = @ + 1]
             /\ pc_hist' = record_access(pc_hist, f, pc_clock)
             /\ pc_evictable' = [pc_evictable EXCEPT ![f] = FALSE]
             /\ pc_clock' = pc_clock + 1
             /\ pc_guards' = [pc_guards EXCEPT ![t] =
                                Append(@, [id |-> id, frame |-> f, how |-> "hit",
                                           inflight |-> pc_frames[f].loading])]
             /\ pc_op' = [name |-> "fetch", res |-> "hit", id |-> id,
                          evicted |-> FALSE, vpin |-> 0]
             /\ UNCHANGED <<pc_table, pc_free, pc_disk, pc_loader, pc_loads, pc_wb>>
     ELSE LET o == ObtainFrame(pc_frames, pc_free, pc_hist, pc_evictable)
          IN IF o.ok
             THEN Len(pc_guards[t]) < MaxGuards /\ TakeFrame(t, id, o, "miss", TRUE)
             ELSE OutOfMemory("fetch", id)
  /\ UNCHANGED <<pc_next, pc_written, pc_removed, pc_others>>

\* the disk read of a miss, outside the table lock, by the task that holds
\* the frame
FetchLoad(t) ==
  /\ pc_loader[t] # 0
  /\ LET f == pc_loader[t]
         id == pc_frames[f].id
     IN /\ pc_frames' = [pc_frames EXCEPT ![f].data = pc_disk[id],
                                          ![f].loading = FALSE]
        /\ pc_loads' = [pc_loads EXCEPT ![id] = @ + 1]
        /\ pc_op' = NoOp
  /\ pc_loader' = [pc_loader EXCEPT ![t] = 0]
  /\ UNCHANGED <<pc_table, pc_free, pc_hist, pc_evictable, pc_clock, pc_disk,
                 pc_next, pc_guards, pc_written, pc_removed, pc_wb, pc_others>>

\* PinGuard::write by task t through its i-th guard: the frame's bytes, then
\* the dirty flag
GuardWrite(t, i, b) ==
  /\ pc_loader[t] = 0 /\ i \in 1..Len(pc_guards[t])
  /\ LET g == pc_guards[t][i]
     IN /\ ~pc_frames[g.frame].loading
        /\ pc_frames' = [pc_frames EXCEPT ![g.frame].data = b,
                                          ![g.frame].dirty = TRUE]
        /\ pc_written' = [pc_written EXCEPT ![g.id] = b]
        /\ pc_op' = NoOp
  /\ UNCHANGED <<pc_table, pc_free, pc_hist, pc_evictable, pc_clock, pc_disk,
                 pc_next, pc_guards, pc_loader, pc_loads, pc_removed, pc_wb,
                 pc_others>>

\* drop of task t's i-th guard
GuardDrop(t, i) ==
  /\ pc_loader[t] = 0 /\ i \in 1..Len(pc_guards[t])
  /\ LET g == pc_guards[t][i]
         fr == Unpin(pc_frames[g.frame])
     IN /\ pc_frames' = [pc_frames EXCEPT ![g.frame] = fr]
        /\ pc_evictable' = IF fr.pin = 0
                           THEN [pc_evictable EXCEPT ![g.frame] = TRUE]
                           ELSE pc_evictable
        /\ pc_op' = NoOp
  /\ pc_guards' = [pc_guards EXCEPT ![t] = RemoveAt(@, i)]
  /\ UNCHANGED <<pc_table, pc_free, pc_hist, pc_clock, pc_disk, pc_next,
                 pc_loader, pc_written, pc_loads, pc_removed, pc_wb, pc_others>>

\* PageCache::remove_page(id), called with pin = 0; the id is not used again
remove_page(id) ==
  /\ pc_table[id] # 0 /\ pc_frames[pc_table[id]].pin = 0
  /\ LET f == pc_table[id]
     IN /\ pc_table' = [pc_table EXCEPT ![id] = 0]
        /\ pc_frames' = [pc_frames EXCEPT ![f] = EmptyFrame]
        /\ pc_free' = Append(pc_free, f)
        /\ pc_hist' = replacer_remove(pc_hist, f)
        /\ pc_evictable' = [pc_evictable EXCEPT ![f] = FALSE]
  /\ pc_removed' = pc_removed \union {id}
  /\ pc_loads' = [pc_loads EXCEPT ![id] = 0]
  /\ pc_op' = NoOp
  /\ UNCHANGED <<pc_clock, pc_disk, pc_next, pc_guards, pc_loader, pc_written,
                 pc_wb, pc_others>>

\* PageCache::flush_all: every dirty frame is written to disk and its dirty
\* flag cleared
flush_all ==
  /\ \E f \in Frames : pc_frames[f].dirty
  /\ \A f \in Frames : ~pc_frames[f].loading
  /\ pc_disk' = [id \in PageIds |->
                   IF pc_table[id] # 0 /\ pc_frames[pc_table[id]].dirty
                   THEN pc_frames[pc_table[id]].data ELSE pc_disk[id]]
  /\ pc_frames' = [f \in Frames |-> [pc_frames[f] EXCEPT !.dirty = FALSE]]
  /\ pc_op' = NoOp
  /\ UNCHANGED <<pc_table, pc_free, pc_hist, pc_evictable, pc_clock, pc_next,
                 pc_guards, pc_loader, pc_written, pc_loads, pc_removed, pc_wb,
                 pc_others>>

\* PageCache::new(disk, replacer, next_page_id): every frame on the free
\* list, an empty table, a disk of zero pages
PCRest ==
  /\ pc_frames = [f \in Frames |-> EmptyFrame]
  /\ pc_table = [id \in PageIds |-> 0]
  /\ pc_free = [f \in Frames |-> f]
  /\ pc_hist = [f \in Frames |-> <<>>]
  /\ pc_evictable = [f \in Frames |-> FALSE]
  /\ pc_clock = 0
  /\ pc_disk = [id \in PageIds |-> 0]
  /\ pc_guards = [t \in Tasks |-> <<>>]
  /\ pc_loader = [t \in Tasks |-> 0]
  /\ pc_written = [id \in PageIds |-> 0]
  /\ pc_loads = [id \in PageIds |-> 0]
  /\ pc_removed = {}
  /\ pc_wb = {}
  /\ pc_op = NoOp

\* a cache over an empty file
PCIdle == pc_next = 0 /\ PCRest

\* a cache over a file of any number of pages up to MaxPages
PCInit == pc_next \in 0..MaxPages /\ PCRest

\* ------------------------------------------------------------------ page cache claims
\* the live guards: task, position and guard
LiveGuards == {<<t, i>> \in Tasks \X (1..MaxGuards) : i <= Len(pc_guards[t])}

GuardOf(ti) == pc_guards[ti[1]][ti[2]]

C13_PinCount ==
  \A f \in Frames :
    /\ pc_frames[f].pin = Cardinality({ti \in LiveGuards : GuardOf(ti).frame = f})
    /\ pc_frames[f].id # -1 => (pc_evictable[f] <=> pc_frames[f].pin = 0)

\* the guards of a dirty page are all dropped and its frame is evictable,
\* while two tasks hold guards over the other frame
C13_Witness ==
  /\ pc_op = NoOp
  /\ \E f \in Frames, g \in Frames :
       /\ pc_frames[f].id # -1 /\ pc_frames[f].pin = 0
       /\ pc_frames[f].dirty /\ pc_evictable[f]
       /\ pc_frames[g].pin = 2
       /\ \E ti \in LiveGuards, tj \in LiveGuards :
            ti[1] # tj[1] /\ GuardOf(ti).frame = g /\ GuardOf(tj).frame = g

ResidentBound == Cardinality({id \in PageIds : pc_table[id] # 0}) <= PoolSize

\* a call that needed a frame ends with OutOfMemory exactly when the free
\* list was empty and every frame was pinned
OomStep ==
  pc_op'.name \in {"new", "fetch"} /\ pc_op'.res # "hit"
    => (pc_op'.res = "oom"
          <=> (pc_free = <<>> /\ \A f \in Frames : pc_frames[f].pin > 0))

\* C14: new_page and fetch_page of a page that is not resident fail with
\* OutOfMemory if and only if the free list is empty and every frame is
\* pinned, and no more than PoolSize pages are resident
C14_OutOfMemory == []ResidentBound /\ [][OomStep]_vars

\* fetch_page of a page that is not resident has just failed
C14_Witness ==
  /\ pc_op.name = "fetch" /\ pc_op.res = "oom"
  /\ pc_table[pc_op.id] = 0

DiskPageSize == 2
MaxDiskPage == 2
MaxDiskByte == 1

\* page ids given to the disk: -1 is the null page id
DiskIds == -1..MaxDiskPage

DiskData == [1..DiskPageSize -> 0..MaxDiskByte]

\* BytesMut::zeroed(n)
Zeroed(n) == [i \in 1..n |-> 0]

\* pread: the bytes the file has from offset on overwrite the head of buf
pread(file, buf, offset) ==
  [i \in 1..Len(buf) |-> IF offset + i <= Len(file) THEN file[offset + i] ELSE buf[i]]

\* pwrite: the file grows to hold the bytes; a gap before them reads as zero
pwrite(file, data, offset) ==
  LET end == IF offset + Len(data) > Len(file) THEN offset + Len(data) ELSE Len(file)
  IN [i \in 1..end |-> IF i > offset /\ i <= offset + Len(data) THEN data[i - offset]
                       ELSE IF i <= Len(file) THEN file[i] ELSE 0]

\* Disk::read_page, for a page id whose offset pread accepts
read_page(file, page_id) == pread(file, Zeroed(DiskPageSize), DiskPageSize * page_id)

write_page_unscaled(file, page_id, data) == pwrite(file, data, page_id)

\* Disk::write_page, for a page id whose offset pwrite accepts
write_page(file, page_id, data) == pwrite(file, data, DiskPageSize * page_id)

\* one Disk::read_page call: a negative offset is an error of pread, and the
\* call panics
DiskRead(page_id) ==
  /\ dk_out' = IF page_id < 0 THEN [id |-> page_id, st |-> "panic", data |-> <<>>]
               ELSE [id |-> page_id, st |-> "ok", data |-> read_page(dk_file, page_id)]
  /\ UNCHANGED <<dk_file, dk_last, dk_others>>

\* one Disk::write_page call with a buffer of PAGE_SIZE bytes
DiskWrite(page_id, data) ==
  /\ page_id >= 0
  /\ dk_file' = write_page(dk_file, page_id, data)
  /\ dk_last' = [dk_last EXCEPT ![page_id] = data]
  /\ dk_out' = <<>>
  /\ UNCHANGED dk_others

\* Disk::new on a file that does not exist yet
DKIdle ==
  /\ dk_file = <<>>
  /\ dk_last = [id \in 0..MaxDiskPage |-> <<>>]
  /\ dk_out = <<>>

\* ------------------------------------------------------------------ disk claims
\* what a page holds by its writes: the last page written, zeroes if none
Expected(id) == IF dk_last[id] = <<>> THEN Zeroed(DiskPageSize) ELSE dk_last[id]

\* C21: read_page returns the page last written under the id, whatever was
\* written under other ids, and a page of zeroes if none was
C21_DiskRoundTrip ==
  /\ dk_out # <<>> /\ dk_out.st = "ok" => dk_out.data = Expected(dk_out.id)
  /\ \A id \in 0..MaxDiskPage : read_page(dk_file, id) = Expected(id)

\* a page was read back after a page with other bytes was written behind it,
\* and a page never written lies between them
C21_Witness ==
  /\ dk_out # <<>> /\ dk_out.st = "ok" /\ dk_out.id = 0
  /\ dk_last[0] # <<>> /\ dk_last[0] # Zeroed(DiskPageSize)
  /\ dk_last[1] = <<>>
  /\ dk_last[MaxDiskPage] \notin {<<>>, dk_last[0]}

\* ------------------------------------------------------------------ bitmap
\* SIZE, the bytes of the bitmap
BitMapSize == 1

BitIndices == 0..(8 * BitMapSize - 1)

\* BitMap::check: (1 << pos_j) & b > 0
check(inner, i) == BitSet(inner[(i \div 8) + 1], Pow2(i % 8))

BitMap_set_uncounted(inner, occupied, i, val) ==
  LET index == (i \div 8) + 1
      bit_index == Pow2(i % 8)
  IN IF val
     THEN [occupied |-> occupied + 1,
           inner |-> [inner EXCEPT ![index] =
                        IF BitSet(@, bit_index) THEN @ ELSE @ + bit_index]]
     ELSE [occupied |-> IF check(inner, i) /\ occupied > 0 THEN occupied - 1 ELSE occupied,
           inner |-> [inner EXCEPT ![index] =
                        IF BitSet(@, bit_index) THEN @ - bit_index ELSE @]]

\* BitMap::set: the counter moves only when the bit changes, then the byte is
\* or-ed with the bit or and-ed with its complement
BitMap_set(inner, occupied, i, val) ==
  LET index == (i \div 8) + 1
      bit_index == Pow2(i % 8)
  IN IF val
     THEN [occupied |-> IF ~check(inner, i) THEN occupied + 1 ELSE occupied,
           inner |-> [inner EXCEPT ![index] =
                        IF BitSet(@, bit_index) THEN @ ELSE @ + bit_index]]
     ELSE [occupied |-> IF check(inner, i) /\ occupied > 0 THEN occupied - 1 ELSE occupied,
           inner |-> [inner EXCEPT ![index] =
                        IF BitSet(@, bit_index) THEN @ - bit_index ELSE @]]

\* BitMap::is_empty
is_empty(occupied) == occupied = 0

\* BitMap::is_full
is_full(occupied) == occupied = BitMapSize * 8

\* one BitMap::set call with i < 8 * SIZE
BitMapSet(i, val) ==
  /\ LET r == BitMap_set(bm_inner, bm_occupied, i, val)
     IN bm_inner' = r.inner /\ bm_occupied' = r.occupied
  /\ bm_bits' = IF val THEN bm_bits \union {i} ELSE bm_bits \ {i}
  /\ bm_op' = [val |-> val, was |-> i \in bm_bits]
  /\ UNCHANGED bm_others

\* BitMap::new
BMIdle ==
  /\ bm_inner = [b \in 1..BitMapSize |-> 0]
  /\ bm_occupied = 0
  /\ bm_bits = {}
  /\ bm_op = <<>>

\* ------------------------------------------------------------------ bitmap claims
\* C22: check(i) is the value of the last set(i, .), occupied counts the bits
\* that are set, is_empty holds iff none is and is_full iff all are
C22_BitMapRefinesSet ==
  /\ \A i \in BitIndices : check(bm_inner, i) <=> i \in bm_bits
  /\ bm_occupied = Cardinality(bm_bits)
  /\ is_empty(bm_occupied) <=> bm_bits = {}
  /\ is_full(bm_occupied) <=> bm_bits = BitIndices

\* a bit that was set has just been set again while other bits are clear
C22_Witness ==
  /\ bm_op # <<>> /\ bm_op.val /\ bm_op.was
  /\ bm_bits # {} /\ bm_bits # BitIndices

\* BTree::new with any max from 0 up, keys of 1..MaxWideKey, one value
InitBTAnyMax == bt_max \in 0..MaxLo /\ BTRest /\ HTIdle /\ LSIdle /\ NDIdle /\ CMIdle /\ PCIdle /\ DKIdle /\ BMIdle /\ HCIdle

NextBTAnyMax == \E key \in 1..MaxWideKey : Insert(key, 1)

SpecBTAnyMax == InitBTAnyMax /\ [][NextBTAnyMax]_vars

InitNode == NDInit /\ BTIdle /\ HTIdle /\ LSIdle /\ CMIdle /\ PCIdle /\ DKIdle /\ BMIdle /\ HCIdle

NextNode == NodeRoundTrip

SpecNode == InitNode /\ [][NextNode]_vars

InitCmp == CMInit /\ BTIdle /\ HTIdle /\ LSIdle /\ NDIdle /\ PCIdle /\ DKIdle /\ BMIdle /\ HCIdle

NextCmp == Compare

SpecCmp == InitCmp /\ [][NextCmp]_vars

InitBT == BTInit /\ HTIdle /\ LSIdle /\ NDIdle /\ CMIdle /\ PCIdle /\ DKIdle /\ BMIdle /\ HCIdle

NextBT == \E key \in BTKeys, value \in BTVals : Insert(key, value)

SpecBT == InitBT /\ [][NextBT]_vars

InitHT == HTInit /\ BTIdle /\ LSIdle /\ NDIdle /\ CMIdle /\ PCIdle /\ DKIdle /\ BMIdle /\ HCIdle

NextHT ==
  \/ \E k \in HTKeys : HTInsert(k)
  \/ \E k \in HTKeys, v \in 1..MaxHInserts : HTRemove(k, v)

SpecHT == InitHT /\ [][NextHT]_vars

InitList == LSInit /\ BTIdle /\ HTIdle /\ NDIdle /\ CMIdle /\ PCIdle /\ DKIdle /\ BMIdle /\ HCIdle

NextList ==
  \/ \E len \in TupleLens, b \in 1..MaxPattern : ListInsert(len, b)
  \/ ListIter
  \/ IterNext

SpecList == InitList /\ [][NextList]_vars

\* a fresh page cache over a file of up to MaxPages pages, used by MaxTasks tasks
InitPC == PCInit /\ BTIdle /\ HTIdle /\ LSIdle /\ NDIdle /\ CMIdle /\ DKIdle /\ BMIdle /\ HCIdle

NextPC ==
  \/ \E t \in Tasks : new_page(t)
  \/ \E t \in Tasks, id \in PageIds : fetch_page(t, id)
  \/ \E t \in Tasks : FetchLoad(t)
  \/ \E t \in Tasks, i \in 1..MaxGuards, b \in Bytes : GuardWrite(t, i, b)
  \/ \E t \in Tasks, i \in 1..MaxGuards : GuardDrop(t, i)
  \/ \E id \in PageIds : remove_page(id)
  \/ flush_all

SpecPC == InitPC /\ [][NextPC]_vars

\* a fresh disk file
InitDisk == DKIdle /\ BTIdle /\ HTIdle /\ LSIdle /\ NDIdle /\ CMIdle /\ PCIdle /\ BMIdle /\ HCIdle

NextDisk ==
  \/ \E page_id \in DiskIds : DiskRead(page_id)
  \/ \E page_id \in DiskIds, data \in DiskData : DiskWrite(page_id, data)

SpecDisk == InitDisk /\ [][NextDisk]_vars

\* a new bitmap
InitBitMap == BMIdle /\ BTIdle /\ HTIdle /\ LSIdle /\ NDIdle /\ CMIdle /\ PCIdle /\ DKIdle /\ HCIdle

NextBitMap == \E i \in BitIndices, val \in BOOLEAN : BitMapSet(i, val)

SpecBitMap == InitBitMap /\ [][NextBitMap]_vars

\* one call of split, get_separators or find_child on a node
InitNodeOps == NDOpInit /\ BTIdle /\ HTIdle /\ LSIdle /\ CMIdle /\ PCIdle /\ DKIdle /\ BMIdle /\ HCIdle

NextNodeOps ==
  \/ \E id \in OpIds : NodeSplit(id)
  \/ \E other \in {<<>>} \union {[n EXCEPT !.id = id] : n \in OpNodes, id \in OpIds} :
       NodeGetSeparators(other)
  \/ \E key \in 0..(MaxOpKey + 1) : NodeFindChild(key)

SpecNodeOps == InitNodeOps /\ [][NextNodeOps]_vars

\* one slot record through its codec and through a list
InitSlot == SLInit /\ BTIdle /\ HTIdle /\ LSIdle /\ CMIdle /\ PCIdle /\ DKIdle /\ BMIdle /\ HCIdle

NextSlot == SlotRoundTrip

SpecSlot == InitSlot /\ [][NextSlot]_vars

\* BTree::new and insert calls, the frame locks of a call included
InitBTLock == BTInit /\ HTIdle /\ LSIdle /\ NDIdle /\ CMIdle /\ PCIdle /\ DKIdle /\ BMIdle /\ HCIdle

NextBTLock == \E key \in BTKeys, value \in BTVals : InsertLocked(key, value)

SpecBTLock == InitBTLock /\ [][NextBTLock]_vars

\* BTree::new and insert calls over a cache that may run out of frames
InitBTOom == BTInit /\ HTIdle /\ LSIdle /\ NDIdle /\ CMIdle /\ PCIdle /\ DKIdle /\ BMIdle /\ HCIdle

NextBTOom == \E key \in BTKeys, value \in BTVals, n \in 0..MaxCalls : InsertOom(key, value, n)

SpecBTOom == InitBTOom /\ [][NextBTOom]_vars

\* concurrent calls on one hash table
InitHTStart ==
  HTStartInit /\ BTIdle /\ LSIdle /\ NDIdle /\ CMIdle /\ PCIdle /\ DKIdle /\ BMIdle /\ HCIdle

NextHTStart ==
  \/ \E k \in HTKeys : HTInsert(k)
  \/ \E k \in HTKeys, v \in 1..MaxHInserts : HTRemove(k, v)

SpecHTStart == InitHTStart /\ [][NextHTStart]_vars

InitHTC == HCInit /\ BTIdle /\ LSIdle /\ NDIdle /\ CMIdle /\ PCIdle /\ DKIdle /\ BMIdle

NextHTC ==
  \/ \E t \in HTasks, k \in HTKeys : Call(t, "insert_dir", k, 0)
  \/ \E t \in HTasks, k \in HTKeys : Call(t, "get_dir", k, 0)
  \/ \E t \in HTasks, k \in HTKeys, v \in 1..MaxHRemoveVal : Call(t, "remove_dir", k, v)
  \/ \E t \in HTasks : Call(t, "num_dir", 0, 0)
  \/ \E t \in HTasks : InsertDir(t)
  \/ \E t \in HTasks : InsertBucket(t)
  \/ \E t \in HTasks : InsertWriteDir(t)
  \/ \E t \in HTasks : InsertWritePage0(t)
  \/ \E t \in HTasks : InsertWritePage1(t)
  \/ \E t \in HTasks : InsertRemovePage(t)
  \/ \E t \in HTasks : ReadDir(t)
  \/ \E t \in HTasks : GetBucket(t)
  \/ \E t \in HTasks : RemoveBucket(t)
  \/ \E t \in HTasks : Return(t)

SpecHTC == InitHTC /\ [][NextHTC]_vars

\* the same with every task scheduled fairly inside a call
SpecHTCFair == SpecHTC /\ \A t \in HTasks : WF_vars(TaskStep(t))

====
